---- MODULE Spec2Model ----
(***************************************************************************)
(* Model of the gomor memory engine.                                       *)
(*                                                                         *)
(* The first part covers the reindex pipeline, retrieval.ReindexMemories:  *)
(* the main goroutine, the embedder, writer and retry goroutines, the      *)
(* WaitGroup waiter, the three channels and the store rows the pipeline    *)
(* rewrites through Store.UpdateMemoryEmbedding.                           *)
(*                                                                         *)
(* The second part covers retrieval: the vector utilities, the rows the    *)
(* save paths and the pipeline leave in the table, Store.SearchMemories,   *)
(* Store.SearchMemoriesFTS and Retriever.Retrieve with its fusion.         *)
(***************************************************************************)
EXTENDS Integers, Sequences, FiniteSets, TLC

\* ----------------------------------------------------------------------
\* Bounds of the model
\* ----------------------------------------------------------------------

\* longest vector given to VectorToBytes
CodecDim == 2

\* longest byte slice given to BytesToVector
CodecBytes == 5

\* longest query string given to tokenizeForFTS, in characters
MaxQueryLen == 4

\* most lines in a reply of the tool model
MaxReplyLines == 2

\* memories in the store when the FTS strategies are run
StrategyRows == 3

\* largest rowid of the memories table when the store is edited
MaxRowid == 3

\* size of the store, and transient failures, when the retry path of a job
\* is observed
RetryMemories == 2

RetryFaults == 2

\* largest number of memories in the store when it holds the vectors of two models
MixedRows == 2

\* memories in the store when the settings screen is used
SettingsRows == 1

\* most commands running or messages on their way in the settings program
MaxInFlight == 2

\* largest number of memories in the store when a single reindex is run
NumMemories == 2

\* largest number of memories whose text the provider rejects on every call
MaxPoison == 1

\* largest number of transient failures (an Embed call on a text the
\* provider accepts, an UpdateMemoryEmbedding call) while one caller is observed
MaxFaults == 1

\* largest number of successive ReindexMemories calls of one caller
MaxRuns == 2

\* largest number of memories in the store when several reindexes are run
RerunMemories == 1

\* size of the store, and transient failures, when a batch is observed for
\* jobs blocking one another
BatchMemories == 3

BatchFaults == 2

\* largest number of memories in the store when Retrieve is observed
RetrMemories == 2

\* largest number of memories in the store when SearchMemories is observed
SearchRows == 3

\* largest MemoryTopK a configuration holds
MaxTopK == 2

\* number of distinct texts a query, or the tool model's answer to it, can be
QueryTexts == 2

\* rows SearchMemoriesFTS has read when the iteration over the rows breaks
RowsBeforeFault == 1

\* ----------------------------------------------------------------------
\* Program constants
\* ----------------------------------------------------------------------

\* reindex: `if job.retryCount >= 5` in the retry goroutine
MaxRetries == 5

\* reindex: time.Duration(job.retryCount+1) * 2 * time.Second
BackoffUnit == 2

\* calculateUnifiedScore: `1.0 + (ur.FTSRank / 20.0)`
RankSpan == 20

\* calculateUnifiedScore: `(vectorScore*0.6 + ftsScore*0.4) * 1.2`, in tenths
VectorWeight == 6

FTSWeight == 4

Boost == 12

\* utils.DefaultConfig: MinSimilarity 0.80
DefaultMinSimilarity == 8000

\* the embedding models a caller can pass: a model the provider's
\* Dimensions lookup knows, and a custom one that falls to its default case
Models == { [Provider |-> "openai", ModelID |-> "small"],
            [Provider |-> "openai", ModelID |-> "custom"] }

\* openai.EmbeddingClient.Dimensions: a static lookup on model.ModelID with
\* a default case (1536 in the code, scaled down to 2 here)
Dimensions(model) ==
    CASE model.ModelID = "small" -> 2
      [] OTHER -> 2

\* length of the vector the remote API actually returns for a model: the
\* API decides it, not the Dimensions lookup
EmbedLen(model) ==
    CASE model.ModelID = "small" -> 2
      [] OTHER -> 3

\* Fixed-point arithmetic for the program's floats: a vector component
\* (float32) with value x is the integer x * Unit; products of two components,
\* and with them similarities, FTS ranks and scores (float64), are in units
\* of 1 / (Unit * Unit). The vectors and ranks the model draws make every
\* division and square root below exact, so that rounding plays no role.
Unit == 100

\* the float64 value 1.0
One == Unit * Unit

\* direction of the provider's vector for a text: four unit vectors
EmbedDirection(text) ==
    CASE text % 4 = 1 -> << 60, 80 >>
      [] text % 4 = 2 -> << -60, -80 >>
      [] text % 4 = 3 -> << 80, 60 >>
      [] OTHER -> << 0, 100 >>

\* EmbeddingClient.Embed on success: a vector that depends on the model and
\* on the text only. It is the provider's raw output: its norm is the
\* provider's choice (here the text number: norm 1 for text 1, 2 for text 2)
\* and its length is EmbedLen(model).
EmbedVector(model, text) ==
    [k \in 1..EmbedLen(model) |->
        IF k <= 2 THEN text * EmbedDirection(text)[k] ELSE 0]

\* variant: the four bytes highest first
PutUint32BigEndian(x) ==
    << (x \div 16777216) % 256, (x \div 65536) % 256, (x \div 256) % 256, x % 256 >>

\* binary.LittleEndian.PutUint32(math.Float32bits(x)): the four bytes of the
\* component's 32-bit pattern, lowest first. The pattern of a fixed-point
\* component is its two's complement, so a negative component has its top
\* bit set as a negative float32 has its sign bit set.
PutUint32(x) ==
    << x % 256, (x \div 256) % 256, (x \div 65536) % 256, (x \div 16777216) % 256 >>

\* math.Float32frombits(binary.LittleEndian.Uint32(b[at..at+3])): the
\* component whose pattern the four bytes hold
Uint32(b, at) ==
    b[at] + 256 * b[at + 1] + 65536 * b[at + 2]
    + 16777216 * (IF b[at + 3] >= 128 THEN b[at + 3] - 256 ELSE b[at + 3])

\* VectorToBytes: 4 bytes per component, little-endian
RECURSIVE VectorToBytes(_)
VectorToBytes(v) ==
    IF Len(v) = 0 THEN <<>>
    ELSE PutUint32(Head(v)) \o VectorToBytes(Tail(v))

\* BytesToVector: nil when the length is no multiple of 4
BytesToVector(b) ==
    IF Len(b) % 4 # 0 THEN <<>>
    ELSE [i \in 1..(Len(b) \div 4) |-> Uint32(b, 4 * i - 3)]

\* the seed rows: a dummy embedding produced by an older model
DummyRow(id) ==
    [text |-> id, embedding |-> VectorToBytes(<<0, 0>>), modelID |-> "dummy",
     dim |-> 2, provider |-> "dummy"]

\* reindexJob zero value, held by a goroutine that holds no job
NoJob == [item |-> [ID |-> 0, Text |-> 0], retryCount |-> 0,
          embedding |-> <<>>, err |-> "nil"]

NoResult == [kind |-> "none", failures |-> <<>>]

VARIABLES
    store,            \* memories table: id -> row
    mainPc,           \* ReindexMemories: "idle", "load", "spawn", "wait", "returned"
    result,           \* value returned by the last ReindexMemories call
    model,            \* the model argument of the current call
    memories,         \* the items GetAllMemories returned to the call
    loadIdx,          \* position of the initial-load loop
    jobsCh,           \* buffered channel, capacity total
    embPc, embJob,    \* embedder goroutine: "none", "recv", "embed", "send", "exit"
    wrPc, wrJob,      \* writer goroutine:   "none", "recv", "write", "sendRetry", "exit"
    rtPc, rtJob,      \* retry goroutine:    "none", "recv", "backoff", "resubmit", "exit"
    wtPc,             \* wg.Wait goroutine:  "none", "wait", "closed" (doneCh closed)
    wg,               \* sync.WaitGroup counter
    failures,         \* the guarded failure list
    parentCancelled,  \* the caller cancelled the context it passed
    runs, runLimit,   \* calls made so far, calls the caller will make
    poison,           \* texts on which every Embed call fails
    faultsLeft,       \* transient failures the provider and the store may still produce
    \* history variables, written only to state the properties
    preStore,         \* the table when the current call started
    embedCalls,       \* id -> number of Embed calls of the current call
    lastErr,          \* id -> the error of the job's current attempt, "nil" if none
    succeeded,        \* id -> number of times the writer finished its job (wg.Done)
    waited,           \* id -> backoff delays (seconds) the job waited, in order
    cancelUnfinished, \* the context was cancelled while a job was unfinished
    prevRun,          \* model and result kind of the previous call
    \* retrieval
    config,           \* utils.MemoryConfig of the Retriever: MemoryTopK, MinSimilarity
    world,            \* what the providers and the FTS engine answer to one query
    response,         \* what the last Retrieve call returned, with its two paths' results
    found,            \* what the last Store.SearchMemories call returned
    \* calls of the package-level functions
    input,            \* the argument of the function under call
    output,           \* what the call returned
    \* full-text index
    ftsIndex,         \* memories_fts: rowid -> the texts indexed for the row
    \* settings screen
    settings          \* the Bubble Tea program of `gomor set`: its Model, the commands it
                      \* runs, the messages on their way to Update, the configuration file

vars == << store, mainPc, result, model, memories, loadIdx, jobsCh,
           embPc, embJob, wrPc, wrJob, rtPc, rtJob, wtPc, wg, failures,
           parentCancelled, runs, runLimit, poison, faultsLeft, preStore, embedCalls,
           lastErr, succeeded, waited, cancelUnfinished, prevRun,
           config, world, response, found, input, output, ftsIndex, settings >>

pipeVars == << jobsCh, embPc, embJob, wrPc, wrJob, rtPc, rtJob, wtPc, wg, failures >>
histVars == << preStore, embedCalls, lastErr, succeeded, waited >>
callVars == << model, memories, runs, runLimit, prevRun >>
envVars == << poison, faultsLeft >>
retrVars == << config, world, response, found >>
funcVars == << input, output >>

\* everything outside the reindex pipeline
otherVars == << retrVars, funcVars, ftsIndex, settings >>

\* ----------------------------------------------------------------------
\* Helpers
\* ----------------------------------------------------------------------

Ids == DOMAIN store

\* ctx inside ReindexMemories: context.WithCancel(parent) with `defer cancel()`
CtxDone == parentCancelled \/ mainPc = "returned"

total == Len(memories)

\* Store.GetAllMemories: all rows, most recent first (ids grow with creation)
RECURSIVE RowsDesc(_)
RowsDesc(n) ==
    IF n = 0 THEN <<>>
    ELSE <<[ID |-> n, Text |-> store[n].text]>> \o RowsDesc(n - 1)

GetAllMemories == RowsDesc(Cardinality(Ids))

\* variant: INSERT OR REPLACE for the UPDATE, the columns that are not given
\* fall back to their defaults
ReplaceRow(id, embedding, modelID, dim, provider) ==
    IF id \in Ids
    THEN [store EXCEPT ![id] = [text |-> 0,
                                embedding |-> VectorToBytes(embedding),
                                modelID |-> modelID,
                                dim |-> dim,
                                provider |-> provider]]
    ELSE store

\* variant: the UPDATE without its WHERE clause
UpdateEveryRow(id, embedding, modelID, dim, provider) ==
    [i \in Ids |-> [store[i] EXCEPT !.embedding = VectorToBytes(embedding),
                                    !.modelID = modelID,
                                    !.dim = dim,
                                    !.provider = provider]]

\* Store.UpdateMemoryEmbedding: UPDATE ... SET embedding, model_id, dim, provider WHERE id
UpdateMemoryEmbedding(id, embedding, modelID, dim, provider) ==
    IF id \in Ids
    THEN [store EXCEPT ![id] = [@ EXCEPT !.embedding = VectorToBytes(embedding),
                                         !.modelID = modelID,
                                         !.dim = dim,
                                         !.provider = provider]]
    ELSE store

\* variant: `>` for `>=`, one attempt too many
RetryLimitOffByOne(job) == job.retryCount > MaxRetries

\* retry goroutine: `if job.retryCount >= 5`
RetryLimitReached(job) == job.retryCount >= MaxRetries

\* variant: the delay computed from the counter itself, the first wait is 0s
BackoffDelayFromZero(job) == job.retryCount * BackoffUnit

\* retry goroutine: time.After(time.Duration(job.retryCount+1) * 2 * time.Second)
BackoffDelay(job) == (job.retryCount + 1) * BackoffUnit

\* variant: `len(failures) > 1`, a single failure goes unreported
CompletionResultLenient(fs) ==
    IF Len(fs) > 1 THEN [kind |-> "aggregate", failures |-> fs]
    ELSE [kind |-> "nil", failures |-> <<>>]

\* the final fmt.Errorf over the failure list, or nil
CompletionResult(fs) ==
    IF Len(fs) > 0 THEN [kind |-> "aggregate", failures |-> fs]
    ELSE [kind |-> "nil", failures |-> <<>>]

ZeroCounts == [i \in Ids |-> 0]

\* workers of an earlier call are gone (or there was no earlier call)
Quiescent ==
    /\ embPc \in {"none", "exit"}
    /\ wrPc \in {"none", "exit"}
    /\ rtPc \in {"none", "exit"}

CanCall ==
    /\ mainPc \in {"idle", "returned"}
    /\ runs < runLimit
    /\ Quiescent

\* bookkeeping common to every call: what the previous call left behind
BeginCall(m) ==
    /\ model' = m
    /\ runs' = runs + 1
    /\ runLimit' = runLimit
    /\ UNCHANGED envVars
    /\ prevRun' = [model |-> model, kind |-> result.kind]
    /\ parentCancelled' = FALSE
    /\ cancelUnfinished' = FALSE
    /\ preStore' = store
    /\ embedCalls' = ZeroCounts
    /\ lastErr' = [i \in Ids |-> "nil"]
    /\ succeeded' = ZeroCounts
    /\ waited' = [i \in Ids |-> <<>>]
    /\ failures' = <<>>
    /\ jobsCh' = <<>>
    /\ embJob' = NoJob /\ wrJob' = NoJob /\ rtJob' = NoJob
    /\ wtPc' = "none"
    /\ store' = store

\* ----------------------------------------------------------------------
\* ReindexMemories, main goroutine
\* ----------------------------------------------------------------------

\* s.GetAllMemories() fails: return "failed to fetch memories for reindexing"
ReindexFetchFail ==
    /\ CanCall
    /\ \E m \in Models : BeginCall(m)
    /\ memories' = <<>>
    /\ loadIdx' = 0
    /\ wg' = 0
    /\ embPc' = "none" /\ wrPc' = "none" /\ rtPc' = "none"
    /\ mainPc' = "returned"
    /\ result' = [kind |-> "fetchError", failures |-> <<>>]
    /\ UNCHANGED otherVars

\* variant: no `if total == 0` check, the goroutines are started for no job
ReindexEmptyUnchecked ==
    /\ CanCall
    /\ Cardinality(Ids) = 0
    /\ \E m \in Models : BeginCall(m)
    /\ memories' = <<>>
    /\ loadIdx' = 1
    /\ wg' = 0
    /\ embPc' = "recv" /\ wrPc' = "recv" /\ rtPc' = "recv"
    /\ mainPc' = "spawn"
    /\ result' = NoResult
    /\ UNCHANGED otherVars

\* total == 0: return nil before any channel or goroutine exists
ReindexEmpty ==
    /\ CanCall
    /\ Cardinality(Ids) = 0
    /\ \E m \in Models : BeginCall(m)
    /\ memories' = <<>>
    /\ loadIdx' = 0
    /\ wg' = 0
    /\ embPc' = "none" /\ wrPc' = "none" /\ rtPc' = "none"
    /\ mainPc' = "returned"
    /\ result' = [kind |-> "nil", failures |-> <<>>]
    /\ UNCHANGED otherVars

\* total > 0: make the channels, start the three goroutines, wg.Add(total)
ReindexStart ==
    /\ CanCall
    /\ Cardinality(Ids) > 0
    /\ \E m \in Models : BeginCall(m)
    /\ memories' = GetAllMemories
    /\ loadIdx' = 1
    /\ wg' = Cardinality(Ids)
    /\ embPc' = "recv" /\ wrPc' = "recv" /\ rtPc' = "recv"
    /\ mainPc' = "load"
    /\ result' = NoResult
    /\ UNCHANGED otherVars

\* initial load: `case jobsCh <- reindexJob{item: m, retryCount: 0}`
InitialLoad ==
    /\ mainPc = "load"
    /\ Len(jobsCh) < total
    /\ jobsCh' = Append(jobsCh, [NoJob EXCEPT !.item = memories[loadIdx]])
    /\ loadIdx' = loadIdx + 1
    /\ mainPc' = IF loadIdx = total THEN "spawn" ELSE "load"
    /\ UNCHANGED << store, result, embPc, embJob, wrPc, wrJob, rtPc, rtJob,
                    wtPc, wg, failures, parentCancelled, cancelUnfinished >>
    /\ UNCHANGED callVars
    /\ UNCHANGED envVars
    /\ UNCHANGED histVars
    /\ UNCHANGED otherVars

\* initial load: `case <-ctx.Done(): return ctx.Err()`
InitialLoadCancelled ==
    /\ mainPc = "load"
    /\ CtxDone
    /\ mainPc' = "returned"
    /\ result' = [kind |-> "cancelled", failures |-> <<>>]
    /\ UNCHANGED << store, loadIdx, parentCancelled, cancelUnfinished >>
    /\ UNCHANGED pipeVars
    /\ UNCHANGED callVars
    /\ UNCHANGED envVars
    /\ UNCHANGED histVars
    /\ UNCHANGED otherVars

\* doneCh := make(chan struct{}); go func() { wg.Wait(); close(doneCh) }()
SpawnWaiter ==
    /\ mainPc = "spawn"
    /\ mainPc' = "wait"
    /\ wtPc' = "wait"
    /\ UNCHANGED << store, result, loadIdx, jobsCh, embPc, embJob, wrPc, wrJob,
                    rtPc, rtJob, wg, failures, parentCancelled, cancelUnfinished >>
    /\ UNCHANGED callVars
    /\ UNCHANGED envVars
    /\ UNCHANGED histVars
    /\ UNCHANGED otherVars

\* the waiter goroutine: wg.Wait() returns at zero, close(doneCh)
WaiterClose ==
    /\ wtPc = "wait"
    /\ wg = 0
    /\ wtPc' = "closed"
    /\ UNCHANGED << store, mainPc, result, loadIdx, jobsCh, embPc, embJob, wrPc,
                    wrJob, rtPc, rtJob, wg, failures, parentCancelled,
                    cancelUnfinished >>
    /\ UNCHANGED callVars
    /\ UNCHANGED envVars
    /\ UNCHANGED histVars
    /\ UNCHANGED otherVars

\* final select: `case <-ctx.Done(): return ctx.Err()`
ReturnCancelled ==
    /\ mainPc = "wait"
    /\ CtxDone
    /\ mainPc' = "returned"
    /\ result' = [kind |-> "cancelled", failures |-> <<>>]
    /\ UNCHANGED << store, loadIdx, parentCancelled, cancelUnfinished >>
    /\ UNCHANGED pipeVars
    /\ UNCHANGED callVars
    /\ UNCHANGED envVars
    /\ UNCHANGED histVars
    /\ UNCHANGED otherVars

\* final select: `case <-doneCh:`, then the aggregate error or nil
ReturnDone ==
    /\ mainPc = "wait"
    /\ wtPc = "closed"
    /\ mainPc' = "returned"
    /\ result' = CompletionResult(failures)
    /\ UNCHANGED << store, loadIdx, parentCancelled, cancelUnfinished >>
    /\ UNCHANGED pipeVars
    /\ UNCHANGED callVars
    /\ UNCHANGED envVars
    /\ UNCHANGED histVars
    /\ UNCHANGED otherVars

\* the caller cancels the context it passed to the running call
CancelCtx ==
    /\ mainPc \in {"load", "spawn", "wait"}
    /\ ~parentCancelled
    /\ parentCancelled' = TRUE
    /\ cancelUnfinished' = (wg > 0)
    /\ UNCHANGED << store, mainPc, result, loadIdx >>
    /\ UNCHANGED pipeVars
    /\ UNCHANGED callVars
    /\ UNCHANGED envVars
    /\ UNCHANGED histVars
    /\ UNCHANGED otherVars

\* ----------------------------------------------------------------------
\* Embedder goroutine
\* ----------------------------------------------------------------------

mainVars == << mainPc, result, loadIdx, parentCancelled, cancelUnfinished >>

\* `case job := <-jobsCh:`
EmbedderRecv ==
    /\ embPc = "recv"
    /\ Len(jobsCh) > 0
    /\ embJob' = Head(jobsCh)
    /\ jobsCh' = Tail(jobsCh)
    /\ embPc' = "embed"
    /\ UNCHANGED << store, wrPc, wrJob, rtPc, rtJob, wtPc, wg, failures >>
    /\ UNCHANGED mainVars
    /\ UNCHANGED callVars
    /\ UNCHANGED envVars
    /\ UNCHANGED histVars
    /\ UNCHANGED otherVars

\* variant: the vector is appended to the one a failed write left in the job
EmbedAppended(job) ==
    [job EXCEPT !.embedding = @ \o EmbedVector(model, job.item.Text), !.err = "nil"]

\* job after embeddingClient.Embed returned a vector
EmbedSucceeded(job) ==
    [job EXCEPT !.embedding = EmbedVector(model, job.item.Text), !.err = "nil"]

\* job after embeddingClient.Embed returned an error
EmbedFailed(job) ==
    [job EXCEPT !.embedding = <<>>, !.err = "embed"]

\* emb, err := embeddingClient.Embed(ctx, model, job.item.Text), err == nil
EmbedderCallOk ==
    /\ embPc = "embed"
    /\ embJob.item.Text \notin poison
    /\ embJob' = EmbedSucceeded(embJob)
    /\ embPc' = "send"
    /\ embedCalls' = [embedCalls EXCEPT ![embJob.item.ID] = @ + 1]
    /\ UNCHANGED << store, jobsCh, wrPc, wrJob, rtPc, rtJob, wtPc, wg, failures,
                    preStore, lastErr, succeeded, waited >>
    /\ UNCHANGED mainVars
    /\ UNCHANGED callVars
    /\ UNCHANGED envVars
    /\ UNCHANGED otherVars

\* emb, err := embeddingClient.Embed(ctx, model, job.item.Text), err != nil,
\* on a text the provider rejects every time
EmbedderCallRejected ==
    /\ embPc = "embed"
    /\ embJob.item.Text \in poison
    /\ embJob' = EmbedFailed(embJob)
    /\ embPc' = "send"
    /\ embedCalls' = [embedCalls EXCEPT ![embJob.item.ID] = @ + 1]
    /\ lastErr' = [lastErr EXCEPT ![embJob.item.ID] = "embed"]
    /\ UNCHANGED << store, jobsCh, wrPc, wrJob, rtPc, rtJob, wtPc, wg, failures,
                    preStore, succeeded, waited >>
    /\ UNCHANGED mainVars
    /\ UNCHANGED callVars
    /\ UNCHANGED envVars
    /\ UNCHANGED otherVars

\* emb, err := embeddingClient.Embed(ctx, model, job.item.Text), err != nil,
\* a transient failure (rate limit, network)
EmbedderCallFail ==
    /\ embPc = "embed"
    /\ embJob.item.Text \notin poison
    /\ faultsLeft > 0
    /\ faultsLeft' = faultsLeft - 1
    /\ poison' = poison
    /\ embJob' = EmbedFailed(embJob)
    /\ embPc' = "send"
    /\ embedCalls' = [embedCalls EXCEPT ![embJob.item.ID] = @ + 1]
    /\ lastErr' = [lastErr EXCEPT ![embJob.item.ID] = "embed"]
    /\ UNCHANGED << store, jobsCh, wrPc, wrJob, rtPc, rtJob, wtPc, wg, failures,
                    preStore, succeeded, waited >>
    /\ UNCHANGED mainVars
    /\ UNCHANGED callVars
    /\ UNCHANGED otherVars

\* `case <-ctx.Done(): return` of either select of the embedder
EmbedderExit ==
    /\ embPc \in {"recv", "send"}
    /\ CtxDone
    /\ embPc' = "exit"
    /\ embJob' = NoJob
    /\ UNCHANGED << store, jobsCh, wrPc, wrJob, rtPc, rtJob, wtPc, wg, failures >>
    /\ UNCHANGED mainVars
    /\ UNCHANGED callVars
    /\ UNCHANGED envVars
    /\ UNCHANGED histVars
    /\ UNCHANGED otherVars

\* ----------------------------------------------------------------------
\* Writer goroutine
\* ----------------------------------------------------------------------

\* variant: the writer does not look at job.err
WriterBranchBlind(job) == "write"

\* where the writer goes with a received job: `if job.err != nil`
WriterBranch(job) == IF job.err # "nil" THEN "sendRetry" ELSE "write"

\* `case writeCh <- job` of the embedder meets `case job := <-writeCh` of the
\* writer (writeCh is unbuffered)
WriterRecv ==
    /\ embPc = "send"
    /\ wrPc = "recv"
    /\ wrJob' = embJob
    /\ wrPc' = WriterBranch(embJob)
    /\ embJob' = NoJob
    /\ embPc' = "recv"
    /\ UNCHANGED << store, jobsCh, rtPc, rtJob, wtPc, wg, failures >>
    /\ UNCHANGED mainVars
    /\ UNCHANGED callVars
    /\ UNCHANGED envVars
    /\ UNCHANGED histVars
    /\ UNCHANGED otherVars

\* variant: modelID and provider arguments in each other's place
WriteRowSwapped(job) ==
    UpdateMemoryEmbedding(job.item.ID, job.embedding, model.Provider,
                          Dimensions(model), model.ModelID)

\* s.UpdateMemoryEmbedding(job.item.ID, job.embedding, model.ModelID, dim,
\* model.Provider) with dim := embeddingClient.Dimensions(model)
WriteRow(job) ==
    UpdateMemoryEmbedding(job.item.ID, job.embedding, model.ModelID,
                          Dimensions(model), model.Provider)

\* the write succeeds: wg.Done()
WriterUpdateOk ==
    /\ wrPc = "write"
    /\ store' = WriteRow(wrJob)
    /\ wg' = wg - 1
    /\ succeeded' = [succeeded EXCEPT ![wrJob.item.ID] = @ + 1]
    /\ wrJob' = NoJob
    /\ wrPc' = "recv"
    /\ UNCHANGED << jobsCh, embPc, embJob, rtPc, rtJob, wtPc, failures,
                    preStore, embedCalls, lastErr, waited >>
    /\ UNCHANGED mainVars
    /\ UNCHANGED callVars
    /\ UNCHANGED envVars
    /\ UNCHANGED otherVars

\* job after a failed write: job.err = fmt.Errorf("write failed: %w", err)
WriteFailed(job) == [job EXCEPT !.err = "write"]

\* the write fails: the row is untouched, the job goes to the retry stage
WriterUpdateFail ==
    /\ wrPc = "write"
    /\ faultsLeft > 0
    /\ faultsLeft' = faultsLeft - 1
    /\ poison' = poison
    /\ wrJob' = WriteFailed(wrJob)
    /\ wrPc' = "sendRetry"
    /\ lastErr' = [lastErr EXCEPT ![wrJob.item.ID] = "write"]
    /\ UNCHANGED << store, jobsCh, embPc, embJob, rtPc, rtJob, wtPc, wg, failures,
                    preStore, embedCalls, succeeded, waited >>
    /\ UNCHANGED mainVars
    /\ UNCHANGED callVars
    /\ UNCHANGED otherVars

\* `case <-ctx.Done(): return` of any select of the writer
WriterExit ==
    /\ wrPc \in {"recv", "sendRetry"}
    /\ CtxDone
    /\ wrPc' = "exit"
    /\ wrJob' = NoJob
    /\ UNCHANGED << store, jobsCh, embPc, embJob, rtPc, rtJob, wtPc, wg, failures >>
    /\ UNCHANGED mainVars
    /\ UNCHANGED callVars
    /\ UNCHANGED envVars
    /\ UNCHANGED histVars
    /\ UNCHANGED otherVars

\* ----------------------------------------------------------------------
\* Retry goroutine
\* ----------------------------------------------------------------------

\* the entry appended to the failure list: "- ID %s: %v", job.item.ID, job.err
FailureEntry(job) == [id |-> job.item.ID, err |-> job.err]

\* variant: wg.Done() without the entry in the failure list
RetryGiveUpUnrecorded ==
    /\ wrPc = "sendRetry"
    /\ rtPc = "recv"
    /\ RetryLimitReached(wrJob)
    /\ wg' = wg - 1
    /\ wrJob' = NoJob
    /\ wrPc' = "recv"
    /\ UNCHANGED << store, jobsCh, embPc, embJob, rtPc, rtJob, wtPc, failures >>
    /\ UNCHANGED mainVars
    /\ UNCHANGED callVars
    /\ UNCHANGED envVars
    /\ UNCHANGED histVars
    /\ UNCHANGED otherVars

\* variant: the entry in the failure list without wg.Done()
RetryGiveUpNotDone ==
    /\ wrPc = "sendRetry"
    /\ rtPc = "recv"
    /\ RetryLimitReached(wrJob)
    /\ failures' = Append(failures, FailureEntry(wrJob))
    /\ wrJob' = NoJob
    /\ wrPc' = "recv"
    /\ UNCHANGED << store, jobsCh, embPc, embJob, rtPc, rtJob, wtPc, wg >>
    /\ UNCHANGED mainVars
    /\ UNCHANGED callVars
    /\ UNCHANGED envVars
    /\ UNCHANGED histVars
    /\ UNCHANGED otherVars

\* `case retryCh <- job` of the writer meets `case job := <-retryCh` of the
\* retry goroutine, retry limit reached: record the failure, wg.Done()
RetryGiveUp ==
    /\ wrPc = "sendRetry"
    /\ rtPc = "recv"
    /\ RetryLimitReached(wrJob)
    /\ failures' = Append(failures, FailureEntry(wrJob))
    /\ wg' = wg - 1
    /\ wrJob' = NoJob
    /\ wrPc' = "recv"
    /\ UNCHANGED << store, jobsCh, embPc, embJob, rtPc, rtJob, wtPc >>
    /\ UNCHANGED mainVars
    /\ UNCHANGED callVars
    /\ UNCHANGED envVars
    /\ UNCHANGED histVars
    /\ UNCHANGED otherVars

\* variant: the writer's branch lacks its `continue`, after the send to
\* retryCh the writer goes on to write the job it has handed over
RetryRecvNoContinue ==
    /\ wrPc = "sendRetry"
    /\ rtPc = "recv"
    /\ ~RetryLimitReached(wrJob)
    /\ rtJob' = wrJob
    /\ rtPc' = "backoff"
    /\ wrJob' = wrJob
    /\ wrPc' = "write"
    /\ UNCHANGED << store, jobsCh, embPc, embJob, wtPc, wg, failures >>
    /\ UNCHANGED mainVars
    /\ UNCHANGED callVars
    /\ UNCHANGED envVars
    /\ UNCHANGED histVars
    /\ UNCHANGED otherVars

\* the same rendezvous below the retry limit: start the backoff timer
RetryRecv ==
    /\ wrPc = "sendRetry"
    /\ rtPc = "recv"
    /\ ~RetryLimitReached(wrJob)
    /\ rtJob' = wrJob
    /\ rtPc' = "backoff"
    /\ wrJob' = NoJob
    /\ wrPc' = "recv"
    /\ UNCHANGED << store, jobsCh, embPc, embJob, wtPc, wg, failures >>
    /\ UNCHANGED mainVars
    /\ UNCHANGED callVars
    /\ UNCHANGED envVars
    /\ UNCHANGED histVars
    /\ UNCHANGED otherVars

\* job after the backoff: job.retryCount++; job.err = nil
Resubmitted(job) == [job EXCEPT !.retryCount = @ + 1, !.err = "nil"]

\* `case <-time.After(...)`: the backoff elapsed
RetryBackoff ==
    /\ rtPc = "backoff"
    /\ waited' = [waited EXCEPT ![rtJob.item.ID] = Append(@, BackoffDelay(rtJob))]
    /\ rtJob' = Resubmitted(rtJob)
    /\ rtPc' = "resubmit"
    /\ lastErr' = [lastErr EXCEPT ![rtJob.item.ID] = "nil"]
    /\ UNCHANGED << store, jobsCh, embPc, embJob, wrPc, wrJob, wtPc, wg, failures,
                    preStore, embedCalls, succeeded >>
    /\ UNCHANGED mainVars
    /\ UNCHANGED callVars
    /\ UNCHANGED envVars
    /\ UNCHANGED otherVars

\* `case jobsCh <- job` (blocks while the buffer is full)
RetryResubmit ==
    /\ rtPc = "resubmit"
    /\ Len(jobsCh) < total
    /\ jobsCh' = Append(jobsCh, rtJob)
    /\ rtJob' = NoJob
    /\ rtPc' = "recv"
    /\ UNCHANGED << store, embPc, embJob, wrPc, wrJob, wtPc, wg, failures >>
    /\ UNCHANGED mainVars
    /\ UNCHANGED callVars
    /\ UNCHANGED envVars
    /\ UNCHANGED histVars
    /\ UNCHANGED otherVars

\* `case <-ctx.Done(): return` of any select of the retry goroutine
RetryExit ==
    /\ rtPc \in {"recv", "backoff", "resubmit"}
    /\ CtxDone
    /\ rtPc' = "exit"
    /\ rtJob' = NoJob
    /\ UNCHANGED << store, jobsCh, embPc, embJob, wrPc, wrJob, wtPc, wg, failures >>
    /\ UNCHANGED mainVars
    /\ UNCHANGED callVars
    /\ UNCHANGED envVars
    /\ UNCHANGED histVars
    /\ UNCHANGED otherVars

\* everything the reindex pipeline reads or writes
reindexVars == << store, pipeVars, histVars, callVars, envVars, mainVars >>

\* ----------------------------------------------------------------------
\* Vector utilities
\* ----------------------------------------------------------------------

\* NormalizeVector: sumSquares += float64(val) * float64(val)
RECURSIVE SumSquares(_)
SumSquares(v) ==
    IF Len(v) = 0 THEN 0
    ELSE Head(v) * Head(v) + SumSquares(Tail(v))

\* Newton's iteration for the integer square root, from the estimate x
RECURSIVE SqrtFrom(_, _)
SqrtFrom(n, x) ==
    LET y == (x + (n \div x)) \div 2
    IN IF y >= x THEN x ELSE SqrtFrom(n, y)

\* math.Sqrt: the largest r with r * r <= n, exact on the squares
Sqrt(n) == IF n = 0 THEN 0 ELSE SqrtFrom(n, n)

\* NormalizeVector: v itself when it is empty or has norm 0, else every
\* component divided by the norm
NormalizeVector(v) ==
    LET norm == Sqrt(SumSquares(v))
    IN IF Len(v) = 0 \/ norm = 0 THEN v
       ELSE [i \in 1..Len(v) |-> (v[i] * Unit) \div norm]

\* DotProduct: sum += float64(a[i]) * float64(b[i])
RECURSIVE DotSum(_, _)
DotSum(a, b) ==
    IF Len(a) = 0 THEN 0
    ELSE Head(a) * Head(b) + DotSum(Tail(a), Tail(b))

\* variant: no length check, the sum runs over the components both have
DotProductCommon(a, b) ==
    LET n == IF Len(a) < Len(b) THEN Len(a) ELSE Len(b)
    IN DotSum(SubSeq(a, 1, n), SubSeq(b, 1, n))

\* DotProduct: 0 when the lengths differ
DotProduct(a, b) == IF Len(a) # Len(b) THEN 0 ELSE DotSum(a, b)

\* ----------------------------------------------------------------------
\* The rows the write paths leave in the table
\* ----------------------------------------------------------------------

\* handleMemorySave (MCP), saveNewMemory and updateMemory (TUI): the provider's
\* vector is normalized, Dim is the length of the normalized vector
SavedRow(m, text) ==
    LET normalizedEmbedding == NormalizeVector(EmbedVector(m, text))
    IN [text |-> text,
        embedding |-> VectorToBytes(normalizedEmbedding),
        modelID |-> m.ModelID,
        dim |-> Len(normalizedEmbedding),
        provider |-> m.Provider]

\* the reindex pipeline: the embedder's job.embedding is the provider's vector
\* as returned, the writer stores it with dim := Dimensions(model)
ReindexedRow(m, text) ==
    [text |-> text,
     embedding |-> VectorToBytes(EmbedVector(m, text)),
     modelID |-> m.ModelID,
     dim |-> Dimensions(m),
     provider |-> m.Provider]

\* ----------------------------------------------------------------------
\* Store.SearchMemories, Store.SearchMemoriesFTS
\* ----------------------------------------------------------------------

\* sort.Slice(s, func(i, j) bool { return key(s[i]) > key(s[j]) }): descending
\* by key (key[i] is the key of s[i]). The slices of the model are shorter than 12 elements, for which
\* sort.Slice is an insertion sort: elements of equal key keep their order.
SortSliceDesc(s, key) ==
    LET pos(i) == 1 + Cardinality({ j \in 1..Len(s) :
                        \/ key[j] > key[i]
                        \/ key[j] = key[i] /\ j < i })
    IN [p \in 1..Len(s) |-> s[CHOOSE i \in 1..Len(s) : pos(i) = p]]



\* the keys of the comparison functions
Similarities(s) == [k \in 1..Len(s) |-> s[k].Similarity]

\* variant: the comparison of fuseResults turned around
ScoresNegated(s) == [k \in 1..Len(s) |-> 0 - s[k].Score]

Scores(s) == [k \in 1..Len(s) |-> s[k].Score]

NegatedRanks(s) == [k \in 1..Len(s) |-> 0 - s[k].Rank]

\* variant: the slice cut one element too late
TruncateLate(s, topK) ==
    IF Len(s) > topK + 1 THEN SubSeq(s, 1, topK + 1) ELSE s

\* `if len(results) > topK { results = results[:topK] }`
Truncate(s, topK) ==
    IF Len(s) > topK THEN SubSeq(s, 1, topK) ELSE s

\* `if similarity >= minSimilarity`
MeetsThreshold(similarity, minSimilarity) == similarity >= minSimilarity

\* the loop of SearchMemories over GetAllMemories: one SearchResult per row
\* (its Item is kept as the id)
ScoreMemories(normalizedQuery) ==
    [k \in 1..Len(GetAllMemories) |->
        [ID |-> GetAllMemories[k].ID,
         Similarity |-> DotProduct(normalizedQuery,
                            BytesToVector(store[GetAllMemories[k].ID].embedding))]]

\* Store.SearchMemories
SearchMemories(queryEmbedding, topK, minSimilarity) ==
    LET normalizedQuery == NormalizeVector(queryEmbedding)
        results == SelectSeq(ScoreMemories(normalizedQuery),
                     LAMBDA r : MeetsThreshold(r.Similarity, minSimilarity))
        sorted == SortSliceDesc(results, Similarities(results))
    IN Truncate(sorted, topK)

\* the error of Store.SearchMemories: that of GetAllMemories, returned as it
\* is when the SelectAllMemories query fails (world.storeFault)
SearchMemoriesErr == IF world.storeFault THEN "SelectAllMemories" ELSE "nil"

\* the rows of the table that match the FTS query, in rowid order, each with
\* the rank and the snippet the engine computes for it. answer is what the
\* engine does with this query: fts, the matching rows with their ranks, and
\* ftsFault, how the query fails if it does
MatchingRows(answer) ==
    LET ids == SelectSeq([k \in 1..Cardinality(Ids) |-> k],
                         LAMBDA i : i \in DOMAIN answer.fts)
    IN [k \in 1..Len(ids) |->
           [ID |-> ids[k], Rank |-> answer.fts[ids[k]], Snippet |-> store[ids[k]].text]]

\* the query SearchMemoriesFTS: ... WHERE memories_fts MATCH ? ORDER BY rank LIMIT ?
\* (rank ascending: the best match first)
QueryFTS(answer, topK) ==
    Truncate(SortSliceDesc(MatchingRows(answer), NegatedRanks(MatchingRows(answer))), topK)

\* Store.SearchMemoriesFTS: (nil, err) when the query fails, and
\* `return results, rows.Err()` after the loop: the rows read so far together
\* with the error when the iteration breaks
SearchMemoriesFTS(answer, topK) ==
    CASE answer.ftsFault = "query" ->
            [results |-> <<>>, err |-> "failed to search memories FTS"]
      [] answer.ftsFault = "rows" ->
            [results |-> Truncate(QueryFTS(answer, topK), RowsBeforeFault), err |-> "rows.Err"]
      [] OTHER ->
            [results |-> QueryFTS(answer, topK), err |-> "nil"]

\* ----------------------------------------------------------------------
\* Retriever
\* ----------------------------------------------------------------------

\* r.embeddingModel
EmbeddingModel == [Provider |-> "openai", ModelID |-> "small"]

\* transformQueryForVector with the fallback of vectorSearch: the original
\* query first, then what parseTransformResponse found in the tool model's
\* answer (nothing when there is no query client or the call fails)
TransformedQueries == << world.query >> \o world.extra

\* variant: every result is appended, seen or not
SeenOrUnseen(results, allResults) == results

\* the deduplication of vectorSearch: `if !seenIDs[res.Item.ID]`
Unseen(results, allResults) ==
    LET seenIDs == { allResults[k].ID : k \in 1..Len(allResults) }
    IN SelectSeq(results, LAMBDA r : r.ID \notin seenIDs)

\* the loop of vectorSearch over the transformed queries: a query whose Embed
\* call or whose SearchMemories call fails is skipped (`continue`), results
\* are appended unless their id was seen
RECURSIVE CollectResults(_, _)
CollectResults(qs, allResults) ==
    IF Len(qs) = 0 THEN allResults
    ELSE IF Head(qs) \in world.embedErr THEN CollectResults(Tail(qs), allResults)
    ELSE IF SearchMemoriesErr # "nil" THEN CollectResults(Tail(qs), allResults)
    ELSE LET results == SearchMemories(EmbedVector(EmbeddingModel, Head(qs)),
                                       config.MemoryTopK, config.MinSimilarity)
         IN CollectResults(Tail(qs), allResults \o Unseen(results, allResults))

\* Retriever.vectorSearch: the results, sorted again and cut to MemoryTopK
vectorSearch ==
    LET allResults == CollectResults(TransformedQueries, <<>>)
    IN Truncate(SortSliceDesc(allResults, Similarities(allResults)), config.MemoryTopK)

\* Retriever.vectorSearch: every return statement is `return allResults, nil`
vectorErr == "nil"

\* Retriever.ftsSearch with the direct strategy: ftsSearchDirect
ftsSearch == SearchMemoriesFTS(world, config.MemoryTopK)

\* fuseResults: the entry of a vector result
VectorEntry(vr) ==
    [ID |-> vr.ID, Score |-> 0, Source |-> "vector", VectorScore |-> vr.Similarity,
     FTSRank |-> 0, Snippet |-> 0]

\* fuseResults: the entry of an FTS result whose id is not in the map
FTSEntry(fr) ==
    [ID |-> fr.ID, Score |-> 0, Source |-> "fts", VectorScore |-> 0,
     FTSRank |-> fr.Rank, Snippet |-> fr.Snippet]

\* variant: the entry keeps its source
MergeFTSUnmarked(existing, fr) ==
    [existing EXCEPT !.FTSRank = fr.Rank, !.Snippet = fr.Snippet]

\* fuseResults: the entry of an FTS result whose id is in the map
MergeFTS(existing, fr) ==
    [existing EXCEPT !.Source = "both", !.FTSRank = fr.Rank, !.Snippet = fr.Snippet]

\* resultMap[id] = entry
Put(resultMap, id, entry) ==
    [i \in DOMAIN resultMap \cup {id} |-> IF i = id THEN entry ELSE resultMap[i]]

\* fuseResults: `for _, vr := range vectorResults`
RECURSIVE AddVectorResults(_, _)
AddVectorResults(vectorResults, resultMap) ==
    IF Len(vectorResults) = 0 THEN resultMap
    ELSE AddVectorResults(Tail(vectorResults),
             Put(resultMap, Head(vectorResults).ID, VectorEntry(Head(vectorResults))))

\* fuseResults: `for _, fr := range ftsResults`
RECURSIVE AddFTSResults(_, _)
AddFTSResults(ftsResults, resultMap) ==
    IF Len(ftsResults) = 0 THEN resultMap
    ELSE LET fr == Head(ftsResults)
         IN AddFTSResults(Tail(ftsResults),
                Put(resultMap, fr.ID,
                    IF fr.ID \in DOMAIN resultMap THEN MergeFTS(resultMap[fr.ID], fr)
                    ELSE FTSEntry(fr)))

\* fuseResults: the map after both loops
ResultMap(vectorResults, ftsResults) ==
    AddFTSResults(ftsResults, AddVectorResults(vectorResults, <<>>))

\* calculateUnifiedScore: `1.0 + (ur.FTSRank / 20.0)`, kept within [0, 1]
FTSScore(rank) ==
    LET score == One + (rank \div RankSpan)
    IN IF score < 0 THEN 0 ELSE IF score > One THEN One ELSE score

\* variant: the blend of the two scores without the boost
calculateUnifiedScoreUnboosted(ur) ==
    CASE ur.Source = "vector" -> ur.VectorScore
      [] ur.Source = "fts" -> FTSScore(ur.FTSRank)
      [] ur.Source = "both" ->
            LET score == ((ur.VectorScore * VectorWeight) \div 10)
                         + ((FTSScore(ur.FTSRank) * FTSWeight) \div 10)
            IN IF score > One THEN One ELSE score
      [] OTHER -> 0

\* calculateUnifiedScore
calculateUnifiedScore(ur) ==
    CASE ur.Source = "vector" -> ur.VectorScore
      [] ur.Source = "fts" -> FTSScore(ur.FTSRank)
      [] ur.Source = "both" ->
            LET score == ((((ur.VectorScore * VectorWeight) \div 10)
                           + ((FTSScore(ur.FTSRank) * FTSWeight) \div 10)) * Boost) \div 10
            IN IF score > One THEN One ELSE score
      [] OTHER -> 0

\* `for _, ur := range resultMap`: Go leaves the iteration order of a map
\* unspecified, any order of the keys can come out
MapOrders(resultMap) ==
    { order \in [1..Cardinality(DOMAIN resultMap) -> DOMAIN resultMap] :
        \A i, j \in DOMAIN order : order[i] = order[j] => i = j }

\* variant: the slice is cut before it is sorted
fuseResultsCutFirst(vectorResults, ftsResults, order) ==
    LET resultMap == ResultMap(vectorResults, ftsResults)
        results == [k \in 1..Len(order) |->
                      [resultMap[order[k]] EXCEPT
                          !.Score = calculateUnifiedScore(resultMap[order[k]])]]
        cut == Truncate(results, config.MemoryTopK)
    IN SortSliceDesc(cut, Scores(cut))

\* Retriever.fuseResults, with the map iterated in the given order
fuseResults(vectorResults, ftsResults, order) ==
    LET resultMap == ResultMap(vectorResults, ftsResults)
        results == [k \in 1..Len(order) |->
                      [resultMap[order[k]] EXCEPT
                          !.Score = calculateUnifiedScore(resultMap[order[k]])]]
    IN Truncate(SortSliceDesc(results, Scores(results)), config.MemoryTopK)

\* before any Retrieve call
NoResponse ==
    [called |-> FALSE, err |-> "nil", vectorResults |-> <<>>, ftsResults |-> <<>>,
     ftsErr |-> "nil", Results |-> <<>>]

\* Retriever.Retrieve once both goroutines are done (wg.Wait): what it
\* returns, together with what the two paths returned
RetrieveResponse(vectorResults, fts, order) ==
    IF vectorErr # "nil" /\ fts.err # "nil"
    THEN [called |-> TRUE, err |-> "retrieval failed",
          vectorResults |-> vectorResults, ftsResults |-> fts.results,
          ftsErr |-> fts.err, Results |-> <<>>]
    ELSE [called |-> TRUE, err |-> "nil",
          vectorResults |-> vectorResults, ftsResults |-> fts.results,
          ftsErr |-> fts.err,
          Results |-> fuseResults(vectorResults, fts.results, order)]

\* a Retrieve call on the query of this world
Retrieve ==
    /\ LET vectorResults == vectorSearch
           fts == ftsSearch
       IN \E order \in MapOrders(ResultMap(vectorResults, fts.results)) :
              response' = RetrieveResponse(vectorResults, fts, order)
    /\ UNCHANGED << config, world, found >>
    /\ UNCHANGED << funcVars, ftsIndex, settings >>
    /\ UNCHANGED reindexVars

\* before any SearchMemories call
NoFound == [called |-> FALSE, results |-> <<>>]

\* a direct Store.SearchMemories call with the embedding of the query
SearchMemoriesCall ==
    /\ found' = [called |-> TRUE,
                 results |-> SearchMemories(EmbedVector(EmbeddingModel, world.query),
                                 config.MemoryTopK, config.MinSimilarity)]
    /\ UNCHANGED << config, world, response >>
    /\ UNCHANGED << funcVars, ftsIndex, settings >>
    /\ UNCHANGED reindexVars

\* ----------------------------------------------------------------------
\* Strings: a string is the sequence of its characters
\* ----------------------------------------------------------------------

\* unicode.IsSpace on the characters of the model
IsSpace(c) == c \in {" ", "\t", "\n"}

RECURSIVE TrimLeft(_)
TrimLeft(s) ==
    IF s # <<>> /\ IsSpace(Head(s)) THEN TrimLeft(Tail(s)) ELSE s

RECURSIVE TrimRight(_)
TrimRight(s) ==
    IF s # <<>> /\ IsSpace(s[Len(s)]) THEN TrimRight(SubSeq(s, 1, Len(s) - 1)) ELSE s

\* strings.TrimSpace
TrimSpace(s) == TrimRight(TrimLeft(s))

\* strings.Fields: the maximal runs of non-space characters; `word` is the run
\* being read
RECURSIVE FieldsFrom(_, _)
FieldsFrom(s, word) ==
    IF s = <<>> THEN (IF word = <<>> THEN <<>> ELSE << word >>)
    ELSE IF IsSpace(Head(s))
         THEN (IF word = <<>> THEN <<>> ELSE << word >>) \o FieldsFrom(Tail(s), <<>>)
         ELSE FieldsFrom(Tail(s), Append(word, Head(s)))

Fields(s) == FieldsFrom(s, <<>>)

\* strings.ReplaceAll(s, old, new) for a one-character old
RECURSIVE ReplaceAll(_, _, _)
ReplaceAll(s, old, new) ==
    IF s = <<>> THEN <<>>
    ELSE (IF Head(s) = old THEN new ELSE << Head(s) >>) \o ReplaceAll(Tail(s), old, new)

\* strings.Join
RECURSIVE Join(_, _)
Join(elems, sep) ==
    IF Len(elems) = 0 THEN <<>>
    ELSE IF Len(elems) = 1 THEN elems[1]
    ELSE elems[1] \o sep \o Join(Tail(elems), sep)

\* the replacements tokenizeForFTS makes in a word, in its order: eight
\* characters are removed, the hyphen is replaced by a space
Replacements ==
    << << "\"", <<>> >>, << "'", <<>> >>, << "*", <<>> >>, << "-", << " " >> >>,
       << "+", <<>> >>, << "^", <<>> >>, << ":", <<>> >>, << "(", <<>> >>,
       << ")", <<>> >> >>

RECURSIVE ReplaceEach(_, _)
ReplaceEach(w, reps) ==
    IF reps = <<>> THEN w
    ELSE ReplaceEach(ReplaceAll(w, Head(reps)[1], Head(reps)[2]), Tail(reps))

\* body of the loop of tokenizeForFTS up to the length test
CleanWord(w) == TrimSpace(ReplaceEach(w, Replacements))

\* the loop of tokenizeForFTS: `if len(w) > 1 { tokens = append(tokens, w) }`
RECURSIVE Tokens(_)
Tokens(words) ==
    IF words = <<>> THEN <<>>
    ELSE (IF Len(CleanWord(Head(words))) > 1 THEN << CleanWord(Head(words)) >> ELSE <<>>)
         \o Tokens(Tail(words))

\* " OR "
OrSeparator == << " ", "O", "R", " " >>

\* tokenizeForFTS: "" for a blank query or when no token survives
tokenizeForFTS(query) ==
    IF TrimSpace(query) = <<>> THEN <<>>
    ELSE Join(Tokens(Fields(TrimSpace(query))), OrSeparator)

\* a tokenizeForFTS call
TokenizeCall ==
    /\ input.kind = "query"
    /\ output' = [called |-> TRUE, text |-> tokenizeForFTS(input.text)]
    /\ UNCHANGED << input, retrVars, ftsIndex, settings, reindexVars >>

\* ----------------------------------------------------------------------
\* Query transformation for the vector path
\* ----------------------------------------------------------------------

\* strings.HasPrefix
HasPrefix(s, prefix) ==
    Len(s) >= Len(prefix) /\ SubSeq(s, 1, Len(prefix)) = prefix

\* strings.TrimPrefix
TrimPrefix(s, prefix) ==
    IF HasPrefix(s, prefix) THEN SubSeq(s, Len(prefix) + 1, Len(s)) ELSE s

\* strings.Split(s, sep) for a one-character sep: the pieces between its
\* occurrences, empty ones included; `piece` is the piece being read
RECURSIVE SplitFrom(_, _, _)
SplitFrom(s, sep, piece) ==
    IF s = <<>> THEN << piece >>
    ELSE IF Head(s) = sep THEN << piece >> \o SplitFrom(Tail(s), sep, <<>>)
         ELSE SplitFrom(Tail(s), sep, Append(piece, Head(s)))

Split(s, sep) == SplitFrom(s, sep, <<>>)

\* "ANSWER:"
AnswerTag == << "A", "N", "S", "W", "E", "R", ":" >>

\* "REPHRASE:"
RephraseTag == << "R", "E", "P", "H", "R", "A", "S", "E", ":" >>

\* what one line of the reply adds to the list: the trimmed text after an
\* ANSWER: or REPHRASE: prefix when it is not empty
ParseLine(line) ==
    LET trimmed == TrimSpace(line)
        answer == TrimSpace(TrimPrefix(trimmed, AnswerTag))
        rephrase == TrimSpace(TrimPrefix(trimmed, RephraseTag))
    IN IF HasPrefix(trimmed, AnswerTag)
       THEN (IF answer # <<>> THEN << answer >> ELSE <<>>)
       ELSE IF HasPrefix(trimmed, RephraseTag)
            THEN (IF rephrase # <<>> THEN << rephrase >> ELSE <<>>)
            ELSE <<>>

RECURSIVE ParseLines(_)
ParseLines(lines) ==
    IF lines = <<>> THEN <<>>
    ELSE ParseLine(Head(lines)) \o ParseLines(Tail(lines))

\* parseTransformResponse: `results := []string{originalQuery}`, then the lines
parseTransformResponse(reply, originalQuery) ==
    << originalQuery >> \o ParseLines(Split(reply, "\n"))

\* variant: the error of the stream is not looked at
transformQueryForVectorUnchecked(client, reply, query) ==
    CASE client = "nil" -> [queries |-> << query >>, err |-> "nil"]
      [] client = "chatErr" -> [queries |-> <<>>, err |-> "ChatStream"]
      [] OTHER -> [queries |-> parseTransformResponse(reply, query), err |-> "nil"]

\* transformQueryForVector. client is what r.queryClient does: "nil" when
\* there is none, "chatErr" when ChatStream fails, "streamErr" when the
\* stream delivers the reply (or a part of it) and ends with an error, "ok"
\* when it delivers the reply and ends cleanly
transformQueryForVector(client, reply, query) ==
    CASE client = "nil" -> [queries |-> << query >>, err |-> "nil"]
      [] client = "chatErr" -> [queries |-> <<>>, err |-> "ChatStream"]
      [] client = "streamErr" -> [queries |-> <<>>, err |-> "stream.Err"]
      [] OTHER -> [queries |-> parseTransformResponse(reply, query), err |-> "nil"]

\* head of vectorSearch: `if err != nil { transformedQueries = []string{query} }`
QueriesToEmbed(transformed, query) ==
    IF transformed.err # "nil" THEN << query >> ELSE transformed.queries

\* the head of a vectorSearch call: the strings it is going to embed, with
\* the error the call returns at its end
TransformCall ==
    /\ input.kind = "transform"
    /\ output' = [called |-> TRUE,
                  queries |-> QueriesToEmbed(
                      transformQueryForVector(input.client, input.reply, input.query),
                      input.query),
                  err |-> vectorErr]
    /\ UNCHANGED << input, retrVars, ftsIndex, settings, reindexVars >>

\* ----------------------------------------------------------------------
\* FTS strategies
\* ----------------------------------------------------------------------

\* `return nil, nil`
NoRows == [results |-> <<>>, err |-> "nil", chats |-> 0]

\* r.store.SearchMemoriesFTS(ftsQuery, r.config.MemoryTopK), after `chats`
\* ChatStream calls; world.engine holds what the FTS engine does with each
\* query string
SearchFTSQuery(ftsQuery, chats) ==
    LET searched == SearchMemoriesFTS(world.engine[ftsQuery], config.MemoryTopK)
    IN [results |-> searched.results, err |-> searched.err, chats |-> chats]

\* Retriever.ftsSearchDirect
ftsSearchDirect(query) ==
    IF tokenizeForFTS(query) = <<>> THEN NoRows
    ELSE SearchFTSQuery(tokenizeForFTS(query), 0)

\* the fallback after a ChatStream call: ftsSearchDirect(query)
DirectAfterChat(query) == [ftsSearchDirect(query) EXCEPT !.chats = 1]

\* Retriever.ftsSearchSummary. world.client is what r.queryClient does (as in
\* transformQueryForVector) and world.reply the text the loop over the stream
\* has collected when stream.Next() returns false; stream.Err() is not
\* called
ftsSearchSummary(query) ==
    CASE world.client = "nil" -> ftsSearchDirect(query)
      [] world.client = "chatErr" -> DirectAfterChat(query)
      [] OTHER ->
            LET summary == TrimSpace(world.reply)
            IN IF summary = <<>> THEN DirectAfterChat(query)
               ELSE IF tokenizeForFTS(summary) = <<>> THEN [NoRows EXCEPT !.chats = 1]
               ELSE SearchFTSQuery(tokenizeForFTS(summary), 1)

\* the loop of ftsSearchKeywords over the comma-separated parts: trimmed,
\* double quotes removed, empty parts dropped
RECURSIVE KeywordTerms(_)
KeywordTerms(parts) ==
    IF parts = <<>> THEN <<>>
    ELSE LET p == ReplaceAll(TrimSpace(Head(parts)), "\"", <<>>)
         IN (IF p # <<>> THEN << p >> ELSE <<>>) \o KeywordTerms(Tail(parts))

\* Retriever.ftsSearchKeywords: the terms joined with " OR " go to the engine
\* as they are
ftsSearchKeywords(query) ==
    CASE world.client = "nil" -> ftsSearchDirect(query)
      [] world.client = "chatErr" -> DirectAfterChat(query)
      [] OTHER ->
            LET keywords == TrimSpace(world.reply)
                terms == KeywordTerms(Split(keywords, ","))
            IN IF keywords = <<>> \/ terms = <<>> THEN DirectAfterChat(query)
               ELSE SearchFTSQuery(Join(terms, OrSeparator), 1)

\* variant: half of MemoryTopK without the floor of 3
AutoThresholdHalf(topK) == topK \div 2

\* ftsSearchAuto: `threshold := r.config.MemoryTopK / 2`, at least 3
AutoThreshold(topK) == IF topK \div 2 < 3 THEN 3 ELSE topK \div 2

\* ftsSearchAuto: the summary results whose id was not seen are appended
RECURSIVE MergeSummary(_, _)
MergeSummary(results, summaryResults) ==
    IF summaryResults = <<>> THEN results
    ELSE LET seenIDs == { results[k].ID : k \in 1..Len(results) }
         IN MergeSummary(
                IF Head(summaryResults).ID \in seenIDs THEN results
                ELSE Append(results, Head(summaryResults)),
                Tail(summaryResults))

\* Retriever.ftsSearchAuto
ftsSearchAuto(query) ==
    LET direct == ftsSearchDirect(query)
        summary == ftsSearchSummary(query)
    IN IF direct.err # "nil" THEN [results |-> <<>>, err |-> direct.err, chats |-> 0]
       ELSE IF Len(direct.results) >= AutoThreshold(config.MemoryTopK) THEN direct
       ELSE IF summary.err # "nil"
            THEN [results |-> direct.results, err |-> "nil", chats |-> summary.chats]
            ELSE [results |-> MergeSummary(direct.results, summary.results),
                  err |-> "nil", chats |-> summary.chats]

\* Retriever.ftsSearch: the switch on r.config.FTSStrategy
ftsSearchStrategy(query) ==
    CASE config.FTSStrategy = "summary" -> ftsSearchSummary(query)
      [] config.FTSStrategy = "keywords" -> ftsSearchKeywords(query)
      [] config.FTSStrategy = "auto" -> ftsSearchAuto(query)
      [] OTHER -> ftsSearchDirect(query)

\* a Retriever.ftsSearch call
FTSSearchCall ==
    /\ input.kind = "ftsSearch"
    /\ LET searched == ftsSearchStrategy(world.query)
       IN output' = [called |-> TRUE, results |-> searched.results,
                     err |-> searched.err, chats |-> searched.chats]
    /\ UNCHANGED << input, retrVars, ftsIndex, settings, reindexVars >>

\* ----------------------------------------------------------------------
\* Store: the statements on the memories table with the triggers of
\* memories_fts, and the commands that edit memories
\* ----------------------------------------------------------------------

\* trigger memories_ai (also the second statement of memories_au):
\* INSERT INTO memories_fts(rowid, text) VALUES (NEW.rowid, NEW.text)
memories_ai(index, rowid, text) ==
    [i \in DOMAIN index \cup {rowid} |->
        IF i # rowid THEN index[i]
        ELSE IF rowid \in DOMAIN index THEN Append(index[rowid], text)
        ELSE << text >>]

\* s without the first occurrence of x
RECURSIVE RemoveFirst(_, _)
RemoveFirst(s, x) ==
    IF s = <<>> THEN <<>>
    ELSE IF Head(s) = x THEN Tail(s)
    ELSE << Head(s) >> \o RemoveFirst(Tail(s), x)

\* variant: the table has no delete trigger
memories_ad_absent(index, rowid, text) == index

\* trigger memories_ad (also the first statement of memories_au): the
\* 'delete' command of FTS5, VALUES('delete', OLD.rowid, OLD.text)
memories_ad(index, rowid, text) ==
    IF rowid \notin DOMAIN index THEN index
    ELSE LET left == RemoveFirst(index[rowid], text)
             rowids == IF left = <<>> THEN DOMAIN index \ {rowid} ELSE DOMAIN index
         IN [i \in rowids |-> IF i = rowid THEN left ELSE index[i]]

\* trigger memories_au
memories_au(index, rowid, oldText, newText) ==
    memories_ai(memories_ad(index, rowid, oldText), rowid, newText)

\* the rowid SQLite gives to a new row: one more than the largest in the table
NextRowid(table) ==
    IF DOMAIN table = {} THEN 1
    ELSE (CHOOSE m \in DOMAIN table : \A i \in DOMAIN table : i <= m) + 1

\* error values: nil, the error of the database driver as it is, and
\* fmt.Errorf("<context>: %w", err)
Nil == [context |-> "nil", cause |-> "nil"]

DbError == [context |-> "none", cause |-> "db"]

Wrapped(context, err) == [err EXCEPT !.context = context]

\* the database: the memories table and the index of memories_fts
Database == [table |-> store, index |-> ftsIndex]

\* Store.SaveMemory of a new item with this text: the INSERT with its trigger,
\* or, when the statement fails, nothing and the wrapped error
SaveMemory(db, text, fails) ==
    IF fails THEN [db |-> db, err |-> Wrapped("failed to save memory", DbError)]
    ELSE LET rowid == NextRowid(db.table)
         IN [db |-> [table |-> [i \in DOMAIN db.table \cup {rowid} |->
                                  IF i = rowid THEN SavedRow(EmbeddingModel, text)
                                  ELSE db.table[i]],
                     index |-> memories_ai(db.index, rowid, text)],
             err |-> Nil]

\* Store.DeleteMemory: DELETE FROM memories WHERE id = ? with its trigger;
\* `return err`
DeleteMemory(db, id, fails) ==
    IF fails THEN [db |-> db, err |-> DbError]
    ELSE IF id \notin DOMAIN db.table THEN [db |-> db, err |-> Nil]
    ELSE [db |-> [table |-> [i \in DOMAIN db.table \ {id} |-> db.table[i]],
                  index |-> memories_ad(db.index, id, db.table[id].text)],
          err |-> Nil]

\* the delete trigger fired for the rows of `rowids`, one after the other
RECURSIVE DeleteEach(_, _, _)
DeleteEach(index, table, rowids) ==
    IF rowids = {} THEN index
    ELSE LET rowid == CHOOSE i \in rowids : TRUE
         IN DeleteEach(memories_ad(index, rowid, table[rowid].text), table,
                       rowids \ {rowid})

\* Store.ClearMemories: DELETE FROM memories, the trigger fires for each row;
\* `return err`
ClearMemories(db, fails) ==
    IF fails THEN [db |-> db, err |-> DbError]
    ELSE [db |-> [table |-> <<>>, index |-> DeleteEach(db.index, db.table, DOMAIN db.table)],
          err |-> Nil]

\* Store.UpdateMemoryEmbedding as a statement with its trigger: the UPDATE
\* leaves the text as it is, memories_au fires for the row it changes
UpdateEmbedding(db, id, m, fails) ==
    IF fails THEN [db |-> db, err |-> Wrapped("failed to update memory embedding", DbError)]
    ELSE IF id \notin DOMAIN db.table THEN [db |-> db, err |-> Nil]
    ELSE [db |-> [table |-> UpdateMemoryEmbedding(id, EmbedVector(m, db.table[id].text),
                                m.ModelID, Dimensions(m), m.Provider),
                  index |-> memories_au(db.index, id, db.table[id].text,
                                        db.table[id].text)],
          err |-> Nil]

\* what a store call or a command leaves behind: the database, and what the
\* caller is told. dbFailed says whether a statement of the call failed
Returns(op, db, dbFailed, err) ==
    /\ store' = db.table
    /\ ftsIndex' = db.index
    /\ output' = [called |-> TRUE, op |-> op, dbFailed |-> dbFailed, err |-> err]
    /\ UNCHANGED << input, retrVars, settings, pipeVars, histVars, callVars, envVars, mainVars >>

\* a SaveMemory call (handleMemorySave, saveNewMemory)
SaveMemoryCall ==
    \E text \in 1..QueryTexts, fails \in BOOLEAN :
        /\ NextRowid(store) <= MaxRowid
        /\ LET saved == SaveMemory(Database, text, fails)
           IN Returns("SaveMemory", saved.db, fails, saved.err)

\* an UpdateMemoryEmbedding call (the writer of the reindex pipeline)
UpdateMemoryEmbeddingCall ==
    \E id \in 1..MaxRowid, m \in Models, fails \in BOOLEAN :
        LET updated == UpdateEmbedding(Database, id, m, fails)
        IN Returns("UpdateMemoryEmbedding", updated.db, fails, updated.err)

\* a DeleteMemory call (the command deleteMemory returns its error)
DeleteMemoryCall ==
    \E id \in 1..MaxRowid, fails \in BOOLEAN :
        LET deleted == DeleteMemory(Database, id, fails)
        IN Returns("DeleteMemory", deleted.db, fails, deleted.err)

\* a ClearMemories call
ClearMemoriesCall ==
    \E fails \in BOOLEAN :
        LET cleared == ClearMemories(Database, fails)
        IN Returns("ClearMemories", cleared.db, fails, cleared.err)

\* the error of provider.NewEmbeddingClient or of embClient.Embed
EmbedError == [context |-> "none", cause |-> "provider"]

\* how far updateMemory gets before the store is opened: "noModel" is
\* `if config.Model.EmbeddingModel == nil { return MemorySavedMsg{Err: err} }`
\* with err nil, "embed" a failed client or Embed call
EditReturns == { "noModel", "embed", "store" }

\* the command updateMemory(id, text, tags): the early returns, then
\* `_ = memStore.DeleteMemory(id)` and SaveMemory of a new item, whose error
\* is the one returned
updateMemoryOf(id, text, reaches, deleteFails, saveFails) ==
    LET deleted == DeleteMemory(Database, id, deleteFails)
        saved == SaveMemory(deleted.db, text, saveFails)
    IN /\ id \in Ids
       /\ NextRowid(deleted.db.table) <= MaxRowid
       /\ CASE reaches = "noModel" ->
                    /\ ~deleteFails /\ ~saveFails
                    /\ Returns("updateMemory", Database, FALSE, Nil)
            [] reaches = "embed" ->
                    /\ ~deleteFails /\ ~saveFails
                    /\ Returns("updateMemory", Database, FALSE, EmbedError)
            [] OTHER ->
                    Returns("updateMemory", saved.db, deleteFails \/ saveFails, saved.err)

updateMemory ==
    \E id \in 1..MaxRowid, text \in 1..QueryTexts, reaches \in EditReturns,
       deleteFails \in BOOLEAN, saveFails \in BOOLEAN :
        updateMemoryOf(id, text, reaches, deleteFails, saveFails)

\* ----------------------------------------------------------------------
\* Calls of the vector codec
\* ----------------------------------------------------------------------

\* VectorToBytes(v) followed by BytesToVector of its result
RoundTripCall ==
    /\ input.kind = "vector"
    /\ output' = [called |-> TRUE,
                  bytes |-> VectorToBytes(input.v),
                  vector |-> BytesToVector(VectorToBytes(input.v))]
    /\ UNCHANGED << input, retrVars, ftsIndex, settings, reindexVars >>

\* BytesToVector(b) on bytes read from a row
DecodeCall ==
    /\ input.kind = "bytes"
    /\ output' = [called |-> TRUE, bytes |-> input.b, vector |-> BytesToVector(input.b)]
    /\ UNCHANGED << input, retrVars, ftsIndex, settings, reindexVars >>

\* ----------------------------------------------------------------------
\* Calls of the scoring rule
\* ----------------------------------------------------------------------

\* the entry of the result map for one memory, as the source says it was found
Entry(source, vectorScore, ftsRank) ==
    [Source |-> source, VectorScore |-> vectorScore, FTSRank |-> ftsRank]

\* calculateUnifiedScore on the entry of a memory, for each of the three
\* sources the entry can have
ScoreCall ==
    /\ input.kind = "entry"
    /\ output' = [called |-> TRUE,
                  vector |-> calculateUnifiedScore(Entry("vector", input.VectorScore, input.FTSRank)),
                  fts |-> calculateUnifiedScore(Entry("fts", input.VectorScore, input.FTSRank)),
                  both |-> calculateUnifiedScore(Entry("both", input.VectorScore, input.FTSRank))]
    /\ UNCHANGED << input, retrVars, ftsIndex, settings, reindexVars >>

\* ----------------------------------------------------------------------
\* Settings screen (`gomor set`): the Bubble Tea Model, its Update handlers,
\* and the commands they start
\* ----------------------------------------------------------------------

\* a nil *types.Model
NoModel == [Provider |-> "none", ModelID |-> "none"]

\* a nil tea.Cmd, and a command that carries no model
NoCmd == [kind |-> "nil", model |-> NoModel]

Cmd(kind) == [kind |-> kind, model |-> NoModel]

\* tea.KeyMsg: the key, with the item the list of the screen has selected
\* when the key arrives
KeyMsg(key, selected) ==
    [kind |-> "KeyMsg", key |-> key, selected |-> selected, err |-> "nil"]

\* ModelsLoadedMsg, ReindexResultMsg, ConfigSavedMsg with their Err
ResultMsg(kind, err) == [kind |-> kind, key |-> "", selected |-> "", err |-> err]

\* the keys a user presses
Keys == { "enter", "y", "n", "esc", "q", "ctrl+c", "down" }

\* the items of createMainMenu that lead to a model, and exit
MenuItems == { "chat-model", "embedding-model", "exit" }

\* what a list can have selected on a screen: menu items, providers, the
\* model ids ListModels returned
Selectable(screen) ==
    CASE screen = "MainMenu" -> MenuItems
      [] screen = "ModelProviderSelect" -> { "openai" }
      [] screen = "ModelSelect" -> { x.ModelID : x \in Models }
      [] OTHER -> { "" }

\* initialModel: the main menu over the loaded configuration. Of the
\* configuration the Model keeps here Config.Model.EmbeddingModel only
initialModel ==
    [Screen |-> "MainMenu",
     ModelType |-> "chat",
     SelectedProvider |-> "",
     EmbeddingModel |-> EmbeddingModel,
     PendingModel |-> NoModel,
     Reindexing |-> FALSE,
     Err |-> "nil",
     Quitting |-> FALSE]

\* the program after tea.NewProgram(initialModel()): no command runs, no
\* message is on its way, the configuration file is the one that was loaded.
\* reindexed is the model of the last reindexMemories command if it returned
\* nil, saveFailed says whether the last saveConfig command failed.
SettingsStarted ==
    [m |-> initialModel,
     cmds |-> {},
     msgs |-> {},
     file |-> [EmbeddingModel |-> initialModel.EmbeddingModel],
     reindexed |-> NoModel,
     saveFailed |-> FALSE]

\* m.Screen = ScreenMainMenu; m.List = createMainMenu()
BackToMainMenu(m) == [m EXCEPT !.Screen = "MainMenu"]

\* Model.updateMainMenu
updateMainMenu(m, msg) ==
    IF msg.kind = "KeyMsg" /\ msg.key = "enter"
    THEN CASE msg.selected = "chat-model" ->
                [m |-> [m EXCEPT !.ModelType = "chat", !.Screen = "ModelProviderSelect"],
                 cmd |-> NoCmd]
           [] msg.selected = "embedding-model" ->
                [m |-> [m EXCEPT !.ModelType = "embedding", !.Screen = "ModelProviderSelect"],
                 cmd |-> NoCmd]
           [] msg.selected = "exit" ->
                [m |-> [m EXCEPT !.Quitting = TRUE], cmd |-> Cmd("quit")]
           [] OTHER -> [m |-> m, cmd |-> NoCmd]
    ELSE [m |-> m, cmd |-> NoCmd]

\* Model.updateModelProviderSelect
updateModelProviderSelect(m, msg) ==
    IF msg.kind = "KeyMsg" /\ msg.key = "enter"
    THEN [m |-> [m EXCEPT !.SelectedProvider = msg.selected], cmd |-> Cmd("loadModels")]
    ELSE [m |-> m, cmd |-> NoCmd]

\* Model.updateModelSelect
updateModelSelect(m, msg) ==
    IF msg.kind = "KeyMsg" /\ msg.key = "enter"
    THEN LET newModel == [Provider |-> m.SelectedProvider, ModelID |-> msg.selected]
             oldModel == m.EmbeddingModel
         IN IF m.ModelType = "embedding"
            THEN IF /\ oldModel # NoModel
                    /\ oldModel.ModelID = newModel.ModelID
                    /\ oldModel.Provider = newModel.Provider
                 THEN [m |-> BackToMainMenu(m), cmd |-> NoCmd]
                 ELSE [m |-> [m EXCEPT !.PendingModel = newModel,
                                       !.Screen = "ConfirmReindex"],
                       cmd |-> NoCmd]
            ELSE [m |-> m, cmd |-> Cmd("saveConfig")]
    ELSE [m |-> m, cmd |-> NoCmd]

\* Model.updateConfirmReindex. `*m.PendingModel` of a nil PendingModel is a
\* nil pointer dereference: the program panics and ends
updateConfirmReindex(m, msg) ==
    IF m.Reindexing
    THEN IF msg.kind = "ReindexResultMsg"
         THEN IF msg.err # "nil"
              THEN [m |-> BackToMainMenu([m EXCEPT !.Reindexing = FALSE, !.Err = msg.err]),
                    cmd |-> NoCmd]
              ELSE [m |-> [m EXCEPT !.Reindexing = FALSE,
                                    !.EmbeddingModel = m.PendingModel,
                                    !.PendingModel = NoModel],
                    cmd |-> Cmd("saveConfig")]
         ELSE [m |-> m, cmd |-> NoCmd]
    ELSE IF msg.kind = "KeyMsg" /\ msg.key \in { "y", "Y" }
         THEN IF m.PendingModel = NoModel
              THEN [m |-> [m EXCEPT !.Quitting = TRUE, !.Err = "panic"], cmd |-> Cmd("quit")]
              ELSE [m |-> [m EXCEPT !.Reindexing = TRUE],
                    cmd |-> [kind |-> "reindex", model |-> m.PendingModel]]
    ELSE IF msg.kind = "KeyMsg" /\ msg.key \in { "n", "N", "esc" }
         THEN [m |-> BackToMainMenu([m EXCEPT !.PendingModel = NoModel]), cmd |-> NoCmd]
    ELSE [m |-> m, cmd |-> NoCmd]

\* the `switch m.Screen` of Model.Update. The switch of model.go has no case
\* for ScreenConfirmReindex, the screen updateModelSelect moves to; the case
\* here hands that screen to updateConfirmReindex, its handler, as the switch
\* hands every other screen to its own
UpdateScreen(m, msg) ==
    CASE m.Screen = "MainMenu" -> updateMainMenu(m, msg)
      [] m.Screen = "ModelProviderSelect" -> updateModelProviderSelect(m, msg)
      [] m.Screen = "ModelSelect" -> updateModelSelect(m, msg)
      [] m.Screen = "ConfirmReindex" -> updateConfirmReindex(m, msg)
      [] OTHER -> [m |-> m, cmd |-> NoCmd]

\* Model.Update: the keys and messages it handles on every screen, then the
\* handler of the screen
Update(m, msg) ==
    CASE msg.kind = "KeyMsg" /\ msg.key \in { "ctrl+c", "q" } ->
            IF m.Screen = "MainMenu"
            THEN [m |-> [m EXCEPT !.Quitting = TRUE], cmd |-> Cmd("quit")]
            ELSE [m |-> [BackToMainMenu(m) EXCEPT !.Err = "nil"], cmd |-> NoCmd]
      [] msg.kind = "KeyMsg" /\ msg.key = "esc" /\ m.Screen # "MainMenu" ->
            [m |-> [BackToMainMenu(m) EXCEPT !.Err = "nil"], cmd |-> NoCmd]
      [] msg.kind = "ModelsLoadedMsg" ->
            IF msg.err # "nil"
            THEN [m |-> BackToMainMenu([m EXCEPT !.Err = msg.err]), cmd |-> NoCmd]
            ELSE [m |-> [m EXCEPT !.Screen = "ModelSelect"], cmd |-> NoCmd]
      [] msg.kind = "ConfigSavedMsg" ->
            IF msg.err # "nil"
            THEN [m |-> [m EXCEPT !.Err = msg.err], cmd |-> NoCmd]
            ELSE [m |-> BackToMainMenu(m), cmd |-> NoCmd]
      [] OTHER -> UpdateScreen(m, msg)

\* nothing but the settings program and the table takes a step
SettingsFrame ==
    UNCHANGED << retrVars, funcVars, ftsIndex, pipeVars, histVars, callVars,
                 envVars, mainVars >>

\* the event loop hands msg to Update, keeps the Model it returns and starts
\* the command it returns; msgsLeft are the messages still on their way. A
\* key that would start a command beyond MaxInFlight is not pressed
Handle(msg, msgsLeft) ==
    LET r == Update(settings.m, msg)
    IN /\ ~settings.m.Quitting
       /\ r.cmd \in settings.cmds \/ r.cmd.kind \in { "nil", "quit" }
              \/ Cardinality(settings.cmds) + Cardinality(msgsLeft) < MaxInFlight
       /\ settings' = [settings EXCEPT
                          !.m = r.m,
                          !.cmds = IF r.cmd.kind \in { "nil", "quit" } THEN @
                                   ELSE @ \cup { r.cmd },
                          !.msgs = msgsLeft]
       /\ store' = store
       /\ SettingsFrame

\* the user presses a key
KeyPress ==
    \E key \in Keys, selected \in Selectable(settings.m.Screen) :
        Handle(KeyMsg(key, selected), settings.msgs)

\* the message a command returned reaches Update
MessageArrives ==
    \E msg \in settings.msgs : Handle(msg, settings.msgs \ { msg })

\* what a command leaves behind when it returns msg
Returned_(cmd, msg) ==
    [settings EXCEPT !.cmds = @ \ { cmd }, !.msgs = @ \cup { msg }]

\* the command loadModelsForProvider: ModelsLoadedMsg with the models or Err
loadModelsForProvider ==
    \E err \in { "nil", "err" } :
        /\ ~settings.m.Quitting
        /\ Cmd("loadModels") \in settings.cmds
        /\ settings' = Returned_(Cmd("loadModels"), ResultMsg("ModelsLoadedMsg", err))
        /\ store' = store
        /\ SettingsFrame

\* the command saveConfig: utils.SaveConfig(config) writes the configuration
\* the Model's Config points to as it is when the command runs
saveConfig ==
    \E err \in { "nil", "err" } :
        /\ ~settings.m.Quitting
        /\ Cmd("saveConfig") \in settings.cmds
        /\ settings' = [Returned_(Cmd("saveConfig"), ResultMsg("ConfigSavedMsg", err))
                          EXCEPT !.file = IF err # "nil" THEN @
                                          ELSE [EmbeddingModel |-> settings.m.EmbeddingModel],
                                 !.saveFailed = (err # "nil")]
        /\ store' = store
        /\ SettingsFrame

\* the command reindexMemories: retrieval.ReindexMemories with
\* context.Background() and the new model. It returns nil when every row was
\* rewritten, and an error (NewStore, NewEmbeddingClient, the aggregate
\* error) after it rewrote the rows of the jobs that succeeded
reindexMemories ==
    \E cmd \in settings.cmds, done \in SUBSET Ids :
        LET err == IF done = Ids THEN "nil" ELSE "err"
        IN /\ ~settings.m.Quitting
           /\ cmd.kind = "reindex"
           /\ store' = [i \in Ids |-> IF i \in done
                                      THEN ReindexedRow(cmd.model, store[i].text)
                                      ELSE store[i]]
           /\ settings' = [Returned_(cmd, ResultMsg("ReindexResultMsg", err))
                             EXCEPT !.reindexed = IF err = "nil" THEN cmd.model
                                                  ELSE NoModel]
           /\ SettingsFrame

\* ----------------------------------------------------------------------
\* Specifications
\* ----------------------------------------------------------------------

\* the store of a caller with n memories, before any reindex
SeedStore(n) == [i \in 1..n |-> DummyRow(i)]

\* no retrieval is observed
RetrieverIdle ==
    /\ config = [MemoryTopK |-> 1, MinSimilarity |-> DefaultMinSimilarity]
    /\ world = [query |-> 1, extra |-> <<>>, embedErr |-> {}, fts |-> <<>>,
                ftsFault |-> "nil", storeFault |-> FALSE]
    /\ response = NoResponse
    /\ found = NoFound

\* no package-level function is under call
NoInput == [kind |-> "none"]

NoOutput == [called |-> FALSE]

FunctionsIdle ==
    /\ input = NoInput
    /\ output = NoOutput

\* the full-text index of a table it is in step with: for every row, its text
IndexOf(tbl) == [i \in DOMAIN tbl |-> << tbl[i].text >>]

\* no ReindexMemories call was made on the table tbl
InitReindex(tbl, limit, bad, faults) ==
    /\ store = tbl
    /\ ftsIndex = IndexOf(tbl)
    /\ settings = SettingsStarted
    /\ mainPc = "idle"
    /\ result = NoResult
    /\ model = [Provider |-> "dummy", ModelID |-> "dummy"]
    /\ memories = <<>>
    /\ loadIdx = 0
    /\ jobsCh = <<>>
    /\ embPc = "none" /\ embJob = NoJob
    /\ wrPc = "none" /\ wrJob = NoJob
    /\ rtPc = "none" /\ rtJob = NoJob
    /\ wtPc = "none"
    /\ wg = 0
    /\ failures = <<>>
    /\ parentCancelled = FALSE
    /\ runs = 0
    /\ runLimit = limit
    /\ poison = bad
    /\ faultsLeft = faults
    /\ preStore = tbl
    /\ embedCalls = [i \in DOMAIN tbl |-> 0]
    /\ lastErr = [i \in DOMAIN tbl |-> "nil"]
    /\ succeeded = [i \in DOMAIN tbl |-> 0]
    /\ waited = [i \in DOMAIN tbl |-> <<>>]
    /\ cancelUnfinished = FALSE
    /\ prevRun = [model |-> [Provider |-> "dummy", ModelID |-> "dummy"],
                  kind |-> "none"]

InitWith(n, limit, bad, faults) ==
    /\ InitReindex(SeedStore(n), limit, bad, faults)
    /\ RetrieverIdle
    /\ FunctionsIdle

\* a caller with up to `most` memories who makes `limit` calls
Workload(most, limit, faults) ==
    \E n \in 0..most :
        \E bad \in SUBSET (1..n) :
            /\ Cardinality(bad) <= MaxPoison
            /\ InitWith(n, limit, bad, faults)

\* one reindex over up to NumMemories memories
Init == Workload(NumMemories, 1, MaxFaults)

\* one reindex over a batch of up to BatchMemories memories
InitBatch == Workload(BatchMemories, 1, BatchFaults)

\* MaxRuns successive reindexes over up to RerunMemories memories
InitRerun == Workload(RerunMemories, MaxRuns, MaxFaults)

\* one reindex in which a job can fail twice for transient reasons
InitRetry == Workload(RetryMemories, 1, RetryFaults)

\* the settings program over a table saved with the configured model
InitSettings ==
    /\ InitReindex([i \in 1..SettingsRows |-> SavedRow(EmbeddingModel, i)], 0, {}, 0)
    /\ RetrieverIdle
    /\ FunctionsIdle

Main ==
    \/ ReindexFetchFail
    \/ ReindexEmpty
    \/ ReindexStart
    \/ InitialLoad
    \/ InitialLoadCancelled
    \/ SpawnWaiter
    \/ ReturnCancelled
    \/ ReturnDone

Embedder ==
    \/ EmbedderRecv
    \/ EmbedderCallOk
    \/ EmbedderCallRejected
    \/ EmbedderCallFail
    \/ EmbedderExit

Writer == WriterRecv \/ WriterUpdateOk \/ WriterUpdateFail \/ WriterExit

Retry == RetryGiveUp \/ RetryRecv \/ RetryBackoff \/ RetryResubmit \/ RetryExit

Next ==
    \/ ReindexFetchFail
    \/ ReindexEmpty
    \/ ReindexStart
    \/ InitialLoad
    \/ InitialLoadCancelled
    \/ SpawnWaiter
    \/ WaiterClose
    \/ ReturnCancelled
    \/ ReturnDone
    \/ CancelCtx
    \/ EmbedderRecv
    \/ EmbedderCallOk
    \/ EmbedderCallRejected
    \/ EmbedderCallFail
    \/ EmbedderExit
    \/ WriterRecv
    \/ WriterUpdateOk
    \/ WriterUpdateFail
    \/ WriterExit
    \/ RetryGiveUp
    \/ RetryRecv
    \/ RetryBackoff
    \/ RetryResubmit
    \/ RetryExit

Spec == Init /\ [][Next]_vars

BatchSpec == InitBatch /\ [][Next]_vars

RerunSpec == InitRerun /\ [][Next]_vars

RetrySpec == InitRetry /\ [][Next]_vars

SettingsSpec ==
    InitSettings /\ [][KeyPress \/ MessageArrives \/ loadModelsForProvider
                       \/ saveConfig \/ reindexMemories]_vars

\* every goroutine that can take a step is scheduled, every Embed and
\* UpdateMemoryEmbedding call returns and every timer fires; the caller is
\* free to cancel or not
Fairness ==
    /\ WF_vars(InitialLoad \/ SpawnWaiter \/ ReturnCancelled \/ ReturnDone)
    /\ WF_vars(WaiterClose)
    /\ WF_vars(EmbedderRecv)
    /\ WF_vars(EmbedderCallOk \/ EmbedderCallRejected \/ EmbedderCallFail)
    /\ WF_vars(WriterRecv)
    /\ WF_vars(WriterUpdateOk \/ WriterUpdateFail)
    /\ WF_vars(RetryGiveUp \/ RetryRecv)
    /\ WF_vars(RetryBackoff)
    /\ WF_vars(RetryResubmit)

FairSpec == Init /\ [][Next]_vars /\ Fairness

\* a table of n memories: each row as a save left it, or as a successful
\* reindex job rewrote it
Tables(n) ==
    { [i \in 1..n |-> IF i \in raw THEN ReindexedRow(EmbeddingModel, i)
                      ELSE SavedRow(EmbeddingModel, i)] : raw \in SUBSET (1..n) }

\* min_similarity of the configuration file: the default, or a value
\* LoadConfig reads from a file edited by hand (any number but 0)
MinSimilarities == { DefaultMinSimilarity, 0 - One }

\* memory_top_k and min_similarity
Configs == [MemoryTopK : 1..MaxTopK, MinSimilarity : MinSimilarities]

\* bm25 ranks of the FTS engine: -25.0 and -10.0
Ranks == { 0 - 25 * One, 0 - 10 * One }

\* what the outside answers while one query is retrieved from n memories: the
\* tool model's transformation, the texts the embedding provider fails on,
\* the rows the FTS query matches with their ranks, the fault of the FTS
\* query, and whether the store's SelectAllMemories query fails
Worlds(n) ==
    UNION { [query : {q},
             extra : {x},
             embedErr : SUBSET ({q} \cup { x[k] : k \in 1..Len(x) }),
             fts : UNION { [S -> Ranks] : S \in SUBSET (1..n) },
             ftsFault : {"nil", "query", "rows"},
             storeFault : {FALSE}] :
            q \in 1..QueryTexts,
            x \in {<<>>} \cup { <<t>> : t \in 1..QueryTexts } }

\* a Retriever over a table of up to RetrMemories memories
InitRetrieve ==
    \E n \in 0..RetrMemories :
        \E tbl \in Tables(n) :
            /\ InitReindex(tbl, 0, {}, 0)
            /\ config \in Configs
            /\ world \in Worlds(n)
            /\ response = NoResponse
            /\ found = NoFound
            /\ FunctionsIdle

\* Retrieve calls, one after the other, with the same query on the same table
RetrieveSpec == InitRetrieve /\ [][Retrieve]_vars

\* a table of up to SearchRows memories that is searched for a query vector
InitSearch ==
    \E n \in 0..SearchRows :
        \E tbl \in Tables(n) :
            /\ InitReindex(tbl, 0, {}, 0)
            /\ config \in Configs
            /\ world \in [query : 1..QueryTexts, extra : {<<>>}, embedErr : {{}},
                           fts : {<<>>}, ftsFault : {"nil"}, storeFault : {FALSE}]
            /\ response = NoResponse
            /\ found = NoFound
            /\ FunctionsIdle

SearchSpec == InitSearch /\ [][SearchMemoriesCall]_vars

\* a table of n memories saved by the save paths, two of which may hold the
\* same text (a note saved twice) and with it the same embedding
SavedTables(n) ==
    { [i \in 1..n |-> SavedRow(EmbeddingModel, texts[i])] :
        texts \in [1..n -> 1..QueryTexts] }

\* a Retriever over saved memories whose FTS query does not fail
InitTop ==
    \E n \in 0..RetrMemories :
        \E tbl \in SavedTables(n) :
            /\ InitReindex(tbl, 0, {}, 0)
            /\ config \in Configs
            /\ world \in { w \in Worlds(n) : w.ftsFault = "nil" }
            /\ response = NoResponse
            /\ found = NoFound
            /\ FunctionsIdle

TopSpec == InitTop /\ [][Retrieve]_vars

\* sequences over S of length at most n
SeqsUpTo(S, n) == UNION { [1..k -> S] : k \in 0..n }

\* float32 components: negative and positive ones, small and large patterns
Components == { 0 - 2147483647, 0 - 2 * Unit, 0 - 1, 0, 60, Unit, 16777216 + 255 }

\* byte values: lowest, highest, and the two around the sign bit
ByteValues == { 0, 127, 128, 255 }

\* the arguments given to the codec: a vector, or the bytes of a BLOB
CodecInputs ==
    [kind : {"vector"}, v : SeqsUpTo(Components, CodecDim)]
    \cup [kind : {"bytes"}, b : SeqsUpTo(ByteValues, CodecBytes)]

InitCodec ==
    /\ InitReindex(SeedStore(0), 0, {}, 0)
    /\ RetrieverIdle
    /\ input \in CodecInputs
    /\ output = NoOutput

CodecSpec == InitCodec /\ [][RoundTripCall \/ DecodeCall]_vars

\* characters of the queries: letters, the space, the hyphen and two of the
\* characters tokenizeForFTS removes
QueryAlphabet == { "a", "b", " ", "-", "(", "*" }

\* "hello-world (test)*"
HelloWorld ==
    << "h", "e", "l", "l", "o", "-", "w", "o", "r", "l", "d", " ",
       "(", "t", "e", "s", "t", ")", "*" >>

\* the queries given to tokenizeForFTS
Queries == SeqsUpTo(QueryAlphabet, MaxQueryLen) \cup { HelloWorld }

InitTokenize ==
    /\ InitReindex(SeedStore(0), 0, {}, 0)
    /\ RetrieverIdle
    /\ input \in [kind : {"query"}, text : Queries]
    /\ output = NoOutput

TokenizeSpec == InitTokenize /\ [][TokenizeCall]_vars

\* lines a tool model may write: the two tags with and without text, with
\* spaces around them, an unknown tag, a tag in lower case, a tag that is not
\* at the start of its line, one tag after the other, an empty line
ReplyLines ==
    { << "A", "N", "S", "W", "E", "R", ":", " ", "a" >>,
      << "A", "N", "S", "W", "E", "R", ":" >>,
      << " ", "R", "E", "P", "H", "R", "A", "S", "E", ":", " ", "b", " " >>,
      << "R", "E", "P", "H", "R", "A", "S", "E", ":", " ", " " >>,
      << "N", "O", "T", "E", ":", " ", "a" >>,
      << "a", "n", "s", "w", "e", "r", ":", " ", "a" >>,
      << "a", " ", "A", "N", "S", "W", "E", "R", ":", " ", "b" >>,
      << "A", "N", "S", "W", "E", "R", ":", "R", "E", "P", "H", "R", "A", "S", "E", ":" >>,
      <<>> }

\* the replies: up to MaxReplyLines lines, "\n" between them
Replies == { Join(ls, << "\n" >>) : ls \in SeqsUpTo(ReplyLines, MaxReplyLines) }

\* the head of vectorSearch for a query, a query client and its reply
TransformInputs ==
    [kind : {"transform"},
     query : { << "a" >>, << "b", " ", "a" >> },
     client : {"nil", "chatErr", "streamErr", "ok"},
     reply : Replies]

InitTransform ==
    /\ InitReindex(SeedStore(0), 0, {}, 0)
    /\ RetrieverIdle
    /\ input \in TransformInputs
    /\ output = NoOutput

TransformSpec == InitTransform /\ [][TransformCall]_vars

\* fts_strategy of the configuration, "" and an unknown value included
Strategies == { "direct", "summary", "keywords", "auto", "", "fuzzy" }

\* memory_top_k: below, at and above twice the floor of the auto threshold
StrategyTopKs == { 1, 3, 8 }

\* the raw queries: one that gives a token, one that gives none
StrategyQueries == { << "a", "b" >>, << "a" >> }

\* what the loop over the stream collected: nothing, a blank, a sentence of
\* one word, two keywords, a comma alone
StrategyReplies ==
    { <<>>, << " " >>, << "c", "d" >>, << "c", "d", ",", "a", "b" >>, << "," >> }

\* bm25 rank of a row (the same for every query that matches it): -20.0 for
\* the rows with an odd id, -10.0 for the others
RankOfRow(i) == 0 - ((i % 2) + 1) * 10 * One

\* what the engine can do with one query string: fail, or match any set of rows
EngineAnswers(n) ==
    { [fts |-> <<>>, ftsFault |-> "query"] }
    \cup { [fts |-> [i \in S |-> RankOfRow(i)], ftsFault |-> "nil"] : S \in SUBSET (1..n) }

\* the query strings a strategy can send to the engine for a query and a reply
AskedQueries(strategy, query, reply) ==
    ({ tokenizeForFTS(query) }
     \cup (IF strategy = "keywords"
           THEN { Join(KeywordTerms(Split(TrimSpace(reply), ",")), OrSeparator) }
           ELSE { tokenizeForFTS(TrimSpace(reply)) })) \ { <<>> }

\* the query, the query client with its reply, and the engine of one call
StrategyWorlds(strategy, n) ==
    UNION { [query : {q},
             client : {"nil", "chatErr", "streamErr", "ok"},
             reply : {reply},
             engine : [AskedQueries(strategy, q, reply) -> EngineAnswers(n)]] :
            q \in StrategyQueries, reply \in StrategyReplies }

InitStrategy ==
    /\ InitReindex([i \in 1..StrategyRows |-> SavedRow(EmbeddingModel, i)], 0, {}, 0)
    /\ \E strategy \in Strategies :
        /\ config \in [MemoryTopK : StrategyTopKs,
                       MinSimilarity : {DefaultMinSimilarity},
                       FTSStrategy : {strategy}]
        /\ world \in StrategyWorlds(strategy, StrategyRows)
    /\ response = NoResponse
    /\ found = NoFound
    /\ input = [kind |-> "ftsSearch"]
    /\ output = NoOutput

StrategySpec == InitStrategy /\ [][FTSSearchCall]_vars

\* a table of n memories in the middle of a migration between the models:
\* each row as a save or a reindex job with either model left it
MixedTables(n) ==
    [1..n -> { SavedRow(m, t) : m \in Models, t \in 1..QueryTexts }
             \cup { ReindexedRow(m, t) : m \in Models, t \in 1..QueryTexts }]

\* SearchMemories on a table that holds the vectors of two models
InitMixed ==
    \E n \in 0..MixedRows :
        /\ store \in MixedTables(n)
        /\ InitReindex(store, 0, {}, 0)
        /\ config \in Configs
        /\ world \in [query : 1..QueryTexts, extra : {<<>>}, embedErr : {{}},
                       fts : {<<>>}, ftsFault : {"nil"}, storeFault : {FALSE}]
        /\ response = NoResponse
        /\ found = NoFound
        /\ FunctionsIdle

MixedSpec == InitMixed /\ [][SearchMemoriesCall]_vars

\* number of FTS ranks drawn below 0, two apart
RankSteps == 12

\* similarities 0.0, 0.1, ... 1.0
ScoreSimilarities == { k * (One \div 10) : k \in 0..10 }

\* bm25 ranks 0.0, -2.0, ... down to below -20.0, where the normalized score
\* is cut at 0, and a rank above 0, where it is cut at 1
ScoreRanks == { 0 - k * 2 * One : k \in 0..RankSteps } \cup { 5 * One }

InitScore ==
    /\ InitReindex(SeedStore(0), 0, {}, 0)
    /\ RetrieverIdle
    /\ input \in [kind : {"entry"}, VectorScore : ScoreSimilarities, FTSRank : ScoreRanks]
    /\ output = NoOutput

ScoreSpec == InitScore /\ [][ScoreCall]_vars

\* a fresh database that is saved to, reindexed, edited and cleared; the
\* Retrieve calls are made while its SELECT statements fail
InitStore ==
    /\ InitReindex(<<>>, 0, {}, 0)
    /\ config = [MemoryTopK |-> 1, MinSimilarity |-> DefaultMinSimilarity]
    /\ world = [query |-> 1, extra |-> <<>>, embedErr |-> {}, fts |-> <<>>,
                ftsFault |-> "query", storeFault |-> TRUE]
    /\ response = NoResponse
    /\ found = NoFound
    /\ FunctionsIdle

StoreSpec ==
    InitStore /\ [][SaveMemoryCall \/ UpdateMemoryEmbeddingCall \/ DeleteMemoryCall
                    \/ ClearMemoriesCall \/ updateMemory \/ Retrieve]_vars

\* ----------------------------------------------------------------------
\* Properties of the reindex pipeline
\* ----------------------------------------------------------------------

Running == mainPc \in {"load", "spawn", "wait"}

Returned == mainPc = "returned"

LoadedIds == { memories[k].ID : k \in 1..Len(memories) }

FailedIds == { failures[k].id : k \in 1..Len(failures) }

\* number of entries of a failure list that name id
Mentions(fs, id) == Cardinality({ k \in 1..Len(fs) : fs[k].id = id })

\* the row as Store.GetAllMemories reads it back
ReadRow(row) == [row EXCEPT !.embedding = BytesToVector(row.embedding)]

\* the row of memory id, read back, is what a successful job leaves behind
Reindexed(id) ==
    ReadRow(store[id]) =
        [text |-> preStore[id].text,
         embedding |-> EmbedVector(model, preStore[id].text),
         modelID |-> model.ModelID,
         dim |-> Dimensions(model),
         provider |-> model.Provider]

\* C1: a job is never given a 7th embedding attempt, and a job that is
\* recorded as a permanent failure, in particular one whose every Embed call
\* fails, has been attempted exactly 6 times (retry counter 0..5).
C1_RetryCeiling ==
    \A i \in Ids :
        /\ embedCalls[i] <= 6
        /\ i \in FailedIds => embedCalls[i] = 6

\* a job on a text the provider always rejects was recorded after 6 attempts
C1_Witness ==
    \E i \in Ids :
        /\ store[i].text \in poison
        /\ i \in FailedIds
        /\ embedCalls[i] = 6
        /\ waited[i] = <<2, 4, 6, 8, 10>>

\* C2: while the caller does not cancel, a started ReindexMemories call
\* eventually returns (which it does only once every job is finished).
C2_EventuallyReturns == Running ~> (Returned \/ parentCancelled)

\* a call returned without cancellation after a job went through the retry stage
C2_Witness ==
    /\ Returned
    /\ ~parentCancelled
    /\ result.kind \in {"nil", "aggregate"}
    /\ \E i \in Ids : embedCalls[i] > 1

\* C3: when a call returns without having been cancelled, every loaded
\* memory's job was finished exactly once: by the writer after a successful
\* UpdateMemoryEmbedding (the row is the reindexed row) or by an entry of the
\* failure list, never both, never neither.
C3_FinishedExactlyOnce ==
    (Returned /\ ~parentCancelled /\ result.kind \in {"nil", "aggregate"}) =>
        \A i \in LoadedIds :
            /\ succeeded[i] + Mentions(failures, i) = 1
            /\ succeeded[i] = 1 => Reindexed(i)

\* a call returned uncancelled with one job succeeded and another failed
C3_Witness ==
    /\ Returned
    /\ ~parentCancelled
    /\ \E i, j \in LoadedIds :
        /\ succeeded[i] = 1 /\ Mentions(failures, i) = 0
        /\ succeeded[j] = 0 /\ Mentions(failures, j) = 1

\* C4: absent cancellation, the call returns the aggregate error iff some job
\* permanently failed (was finished without a successful write); the error
\* names each such memory exactly once with the error of the job's last
\* attempt, and names no memory that succeeded.
C4_AggregateError ==
    (Returned /\ ~parentCancelled /\ result.kind # "fetchError") =>
        /\ result.kind \in {"nil", "aggregate"}
        /\ result.kind = "aggregate" <=> (\E i \in LoadedIds : succeeded[i] = 0)
        /\ \A i \in LoadedIds :
               Mentions(result.failures, i) = (IF succeeded[i] = 0 THEN 1 ELSE 0)
        /\ \A k \in 1..Len(result.failures) :
               /\ result.failures[k].id \in LoadedIds
               /\ result.failures[k].err = lastErr[result.failures[k].id]
               /\ result.failures[k].err # "nil"

\* an uncancelled call returned the aggregate error naming one memory
C4_Witness ==
    /\ Returned
    /\ ~parentCancelled
    /\ result.kind = "aggregate"
    /\ Len(result.failures) = 1
    /\ Cardinality(LoadedIds) = 2

\* C5: a job whose embedding succeeded never has to wait for another job's
\* backoff: it is not the case that it sits in the embedder's send to the
\* writer while the writer is stuck handing a failed job to a retry stage
\* that is sleeping out a backoff.
C5_NoHeadOfLineBlocking ==
    ~ ( /\ ~CtxDone
        /\ embPc = "send" /\ embJob.err = "nil"
        /\ wrPc = "sendRetry"
        /\ rtPc = "backoff" )

\* C6: a call whose context was cancelled while a job was unfinished returns
\* the cancellation error.
C6_CancelReturnsCtxErr ==
    (Returned /\ cancelUnfinished) => result.kind = "cancelled"

\* C7: once the call has returned, no pipeline task calls the
\* EmbeddingProvider or writes to the store any more.
C7_NoWorkAfterReturn ==
    [][(mainPc = "returned" /\ mainPc' = "returned") =>
           (store' = store /\ embedCalls' = embedCalls)]_vars

\* C8: when the aggregate error is returned, every memory whose job
\* succeeded holds the reindexed row and every memory named in the failure
\* list holds the row it had before the call.
C8_PartialSuccessKept ==
    (Returned /\ result.kind = "aggregate") =>
        \A i \in LoadedIds :
            /\ succeeded[i] > 0 => Reindexed(i)
            /\ i \in FailedIds => store[i] = preStore[i]

\* the aggregate error was returned with one row rewritten and one row kept
C8_Witness ==
    /\ Returned
    /\ result.kind = "aggregate"
    /\ \E i, j \in LoadedIds :
        /\ succeeded[i] > 0 /\ store[i] # preStore[i]
        /\ j \in FailedIds /\ store[j] = preStore[j]

\* C9: after a call returned nil, every memory of the store carries the
\* call's model: provider, modelID, dim = Dimensions(model), and the vector
\* the provider returns for its text.
C9_AllRowsReindexed ==
    (Returned /\ result.kind = "nil") =>
        \A i \in Ids :
            /\ store[i].provider = model.Provider
            /\ store[i].modelID = model.ModelID
            /\ store[i].dim = Dimensions(model)
            /\ ReadRow(store[i]).embedding = EmbedVector(model, store[i].text)

\* a call over a non-empty store returned nil and replaced the seed embedding
C9_Witness ==
    /\ Returned
    /\ result.kind = "nil"
    /\ Cardinality(Ids) = 2
    /\ \A i \in Ids : store[i].embedding # preStore[i].embedding

\* C10: a second successful call with the model of the preceding successful
\* call leaves every row as the first call left it.
C10_Idempotent ==
    (Returned /\ runs >= 2 /\ result.kind = "nil"
        /\ prevRun.kind = "nil" /\ prevRun.model = model) =>
        store = preStore

\* two successful calls with the same model over a non-empty store, the
\* second one having retried a job
C10_Witness ==
    /\ Returned
    /\ runs = 2
    /\ result.kind = "nil"
    /\ prevRun.kind = "nil"
    /\ prevRun.model = model
    /\ Ids # {}
    /\ \E i \in Ids : embedCalls[i] > 1 /\ store[i].modelID = model.ModelID

\* the ids of the items of a result list
IdsOf(s) == { s[k].ID : k \in 1..Len(s) }

\* every Embed call of the vector path fails
VectorPathFailed ==
    \A k \in 1..Len(TransformedQueries) : TransformedQueries[k] \in world.embedErr

\* C11: every memory of the store has dim equal to the length of its
\* embedding, whatever saves, reindex runs and deletes came before, also when
\* the provider's vector is not as long as Dimensions(model) says.
C11_DimIsLength ==
    \A i \in Ids : store[i].dim = Len(BytesToVector(store[i].embedding))

\* C12: every stored embedding has unit norm, or is empty or the zero
\* vector, in particular the embeddings the reindex write stage stored.
C12_StoredNormalized ==
    \A i \in Ids : SumSquares(BytesToVector(store[i].embedding)) \in {0, One}

\* C13: when every Embed call of the vector path fails and the FTS query
\* fails, Retrieve returns an error.
C13_BothFailIsError ==
    (response.called /\ VectorPathFailed /\ response.ftsErr # "nil")
        => response.err # "nil"

\* C14: when exactly one of the two paths fails, Retrieve succeeds and every
\* result comes from the path that succeeded alone: its Source is that path's
\* and its id is one of that path's results.
C14_FailedSideIsEmpty ==
    response.called =>
        /\ (VectorPathFailed /\ response.ftsErr = "nil") =>
              /\ response.err = "nil"
              /\ \A k \in 1..Len(response.Results) :
                    /\ response.Results[k].Source = "fts"
                    /\ response.Results[k].ID \in IdsOf(response.ftsResults)
        /\ (~VectorPathFailed /\ response.ftsErr # "nil") =>
              /\ response.err = "nil"
              /\ \A k \in 1..Len(response.Results) :
                    /\ response.Results[k].Source = "vector"
                    /\ response.Results[k].ID \in IdsOf(response.vectorResults)

\* C15: in the fused list no id occurs twice; an entry's Source is both
\* exactly when its id is in the vector results and in the FTS results, vector
\* exactly when it is in the vector results only, fts exactly when it is in
\* the FTS results only; a both entry has the similarity of its vector result
\* as VectorScore and the rank and snippet of its FTS result.
C15_FusedSources ==
    (response.called /\ response.err = "nil") =>
        LET R == response.Results
            V == response.vectorResults
            F == response.ftsResults
        IN /\ \A j, k \in 1..Len(R) : R[j].ID = R[k].ID => j = k
           /\ \A k \in 1..Len(R) :
                /\ R[k].Source \in {"vector", "fts", "both"}
                /\ R[k].Source = "both" <=> R[k].ID \in IdsOf(V) \cap IdsOf(F)
                /\ R[k].Source = "vector" <=> R[k].ID \in IdsOf(V) \ IdsOf(F)
                /\ R[k].Source = "fts" <=> R[k].ID \in IdsOf(F) \ IdsOf(V)
                /\ R[k].Source = "both" =>
                      /\ \E v \in 1..Len(V) :
                            /\ V[v].ID = R[k].ID
                            /\ R[k].VectorScore = V[v].Similarity
                      /\ \E f \in 1..Len(F) :
                            /\ F[f].ID = R[k].ID
                            /\ R[k].FTSRank = F[f].Rank
                            /\ R[k].Snippet = F[f].Snippet

\* a response that holds an entry found by both paths next to an entry found by one
C15_Witness ==
    /\ response.called
    /\ response.ftsErr = "nil"
    /\ \E j, k \in 1..Len(response.Results) :
          /\ response.Results[j].Source = "both"
          /\ response.Results[k].Source # "both"

\* C16: the score of every fused entry is VectorScore for Source vector,
\* clamp(1 + FTSRank/20, 0, 1) for Source fts, and
\* clamp((VectorScore*0.6 + clamp(1 + FTSRank/20, 0, 1)*0.4) * 1.2, 0, 1) for
\* Source both.
C16_ScoreRule ==
    response.called =>
        \A k \in 1..Len(response.Results) :
            LET r == response.Results[k]
                clamp(x) == IF x < 0 THEN 0 ELSE IF x > One THEN One ELSE x
                fts == clamp(One + (r.FTSRank \div 20))
            IN r.Score =
                 CASE r.Source = "vector" -> r.VectorScore
                   [] r.Source = "fts" -> fts
                   [] OTHER -> clamp((((r.VectorScore * 6) \div 10
                                       + (fts * 4) \div 10) * 12) \div 10)

\* C17: every result of Retrieve has a Score in [0, 1].
C17_ScoreInUnitRange ==
    \A k \in 1..Len(response.Results) :
        /\ response.Results[k].Score >= 0
        /\ response.Results[k].Score <= One

\* C18: the results of Retrieve are in non-increasing order of Score, there
\* are at most MemoryTopK of them, and no fused entry that was left out has a
\* higher score than a returned one.
C18_RankedAndCut ==
    (response.called /\ response.err = "nil") =>
        LET R == response.Results
            fused == ResultMap(response.vectorResults, response.ftsResults)
        IN /\ Len(R) <= config.MemoryTopK
           /\ \A j, k \in 1..Len(R) : j < k => R[j].Score >= R[k].Score
           /\ \A id \in DOMAIN fused \ IdsOf(R) :
                \A k \in 1..Len(R) : calculateUnifiedScore(fused[id]) <= R[k].Score

\* the fusion held more than MemoryTopK entries and the one left out scores lower
C18_Witness ==
    /\ response.called
    /\ Len(response.Results) = config.MemoryTopK
    /\ LET fused == ResultMap(response.vectorResults, response.ftsResults)
       IN \E id \in DOMAIN fused \ IdsOf(response.Results) :
             calculateUnifiedScore(fused[id]) < response.Results[Len(response.Results)].Score

\* C19: two Retrieve calls with the same query, the same table and the same
\* provider and engine answers return the same results in the same order.
C19_Deterministic ==
    [][(response.called /\ response'.called) => response'.Results = response.Results]_vars

\* C20: SearchMemories returns at most topK results, each with its memory's
\* similarity to the query and that similarity at least minSimilarity, in
\* non-increasing order of similarity, and no memory that meets the threshold
\* and was left out is more similar than a returned one.
C20_SearchTopK ==
    found.called =>
        LET R == found.results
            q == NormalizeVector(EmbedVector(EmbeddingModel, world.query))
            sim(i) == DotProduct(q, BytesToVector(store[i].embedding))
        IN /\ Len(R) <= config.MemoryTopK
           /\ \A k \in 1..Len(R) :
                /\ R[k].ID \in Ids
                /\ R[k].Similarity = sim(R[k].ID)
                /\ R[k].Similarity >= config.MinSimilarity
           /\ \A j, k \in 1..Len(R) : j < k => R[j].Similarity >= R[k].Similarity
           /\ \A i \in Ids \ IdsOf(R) :
                sim(i) >= config.MinSimilarity =>
                    \A k \in 1..Len(R) : sim(i) <= R[k].Similarity

\* a search that left out one memory below the threshold and one that meets
\* it but is less similar than the topK returned
C20_Witness ==
    /\ found.called
    /\ Len(found.results) = config.MemoryTopK
    /\ LET q == NormalizeVector(EmbedVector(EmbeddingModel, world.query))
           sim(i) == DotProduct(q, BytesToVector(store[i].embedding))
       IN /\ \E i \in Ids \ IdsOf(found.results) : sim(i) < config.MinSimilarity
          /\ \E i \in Ids \ IdsOf(found.results) :
                /\ sim(i) >= config.MinSimilarity
                /\ sim(i) < found.results[Len(found.results)].Similarity

\* the jobs of the current call held by a channel or a goroutine
JobsInFlight ==
    {j \in {jobsCh[k] : k \in 1..Len(jobsCh)} \cup {embJob, wrJob, rtJob} :
        j.item.ID \in Ids}

\* C30: the k-th backoff of a job lasts 2k seconds (2s, 4s, 6s, 8s, 10s), a job
\* waits at most five times, and wherever a job is its retry counter equals
\* the number of backoffs it went through, so that the counter grows by one
\* per resubmission, is never lowered or reset, and never exceeds 5.
C30_BackoffSchedule ==
    /\ \A i \in Ids :
        /\ Len(waited[i]) <= MaxRetries
        /\ \A k \in 1..Len(waited[i]) : waited[i][k] = 2 * k
    /\ \A j \in JobsInFlight :
        /\ j.retryCount = Len(waited[j.item.ID])
        /\ j.retryCount <= MaxRetries

\* a job is back in the jobs channel after its fifth backoff
C30_Witness ==
    \E k \in 1..Len(jobsCh) :
        /\ jobsCh[k].retryCount = 5
        /\ waited[jobsCh[k].item.ID] = <<2, 4, 6, 8, 10>>

\* the transformed queries whose Embed call succeeds, in order
EmbeddedQueries == SelectSeq(TransformedQueries, LAMBDA t : t \notin world.embedErr)

\* what SearchMemories returns for the k-th embedded query
HitsOf(k) ==
    SearchMemories(EmbedVector(EmbeddingModel, EmbeddedQueries[k]),
                   config.MemoryTopK, config.MinSimilarity)

\* the ids some embedded query finds
HitIds == UNION { IdsOf(HitsOf(k)) : k \in 1..Len(EmbeddedQueries) }

\* the similarity of the first occurrence of an id of HitIds
FirstSimilarity(id) ==
    LET first == CHOOSE k \in 1..Len(EmbeddedQueries) :
                    /\ id \in IdsOf(HitsOf(k))
                    /\ \A j \in 1..(k - 1) : id \notin IdsOf(HitsOf(j))
        at == CHOOSE p \in 1..Len(HitsOf(first)) : HitsOf(first)[p].ID = id
    IN HitsOf(first)[at].Similarity

\* C24: the vector path returns the ids found by the embedded queries, each
\* once and with the similarity of its first occurrence, in non-increasing
\* order of similarity and cut to MemoryTopK: the cut leaves out no id that is
\* more similar than one it keeps. A query whose Embed call fails is skipped.
C24_VectorPathReference ==
    response.called =>
        LET R == response.vectorResults
        IN /\ Len(R) = IF Cardinality(HitIds) > config.MemoryTopK
                       THEN config.MemoryTopK ELSE Cardinality(HitIds)
           /\ \A k \in 1..Len(R) :
                /\ R[k].ID \in HitIds
                /\ R[k].Similarity = FirstSimilarity(R[k].ID)
           /\ \A j, k \in 1..Len(R) :
                j < k => (R[j].ID # R[k].ID /\ R[j].Similarity >= R[k].Similarity)
           /\ \A id \in HitIds \ IdsOf(R) :
                \A k \in 1..Len(R) : FirstSimilarity(id) <= R[k].Similarity

\* both transformed queries were embedded and found the same memory with
\* different similarities: the first of them counts
C24_Witness ==
    /\ response.called
    /\ Len(TransformedQueries) = 2
    /\ Len(EmbeddedQueries) = 2
    /\ \E id \in IdsOf(response.vectorResults) :
        /\ id \in IdsOf(HitsOf(1)) \cap IdsOf(HitsOf(2))
        /\ \E p \in 1..Len(HitsOf(2)) :
            /\ HitsOf(2)[p].ID = id
            /\ HitsOf(2)[p].Similarity # FirstSimilarity(id)

\* the candidates of the last Retrieve call: the map fuseResults built
Fused == ResultMap(response.vectorResults, response.ftsResults)

\* the similarity SearchMemories computes between the query and a memory
QuerySimilarity(i) ==
    DotProduct(NormalizeVector(EmbedVector(EmbeddingModel, world.query)),
               BytesToVector(store[i].embedding))

\* Retrieve returned without error and its first result is memory m
TopResultIs(m) ==
    /\ response.err = "nil"
    /\ Len(response.Results) >= 1
    /\ response.Results[1].ID = m

\* C21 as stated: a memory whose similarity with the embedded query is at
\* least MinSimilarity, and which no other candidate outscores, is the first
\* result of Retrieve.
C21_TopMemoryFirst ==
    response.called =>
        \A m \in Ids :
            ( /\ world.query \notin world.embedErr
              /\ QuerySimilarity(m) >= config.MinSimilarity
              /\ m \in DOMAIN Fused
              /\ \A i \in DOMAIN Fused \ {m} :
                    calculateUnifiedScore(Fused[i]) <= calculateUnifiedScore(Fused[m]) )
            => TopResultIs(m)

\* C21, amended: a candidate whose unified score is strictly above every
\* other candidate's is the first result, and the only memory of a store is
\* the first result whenever the query is embedded and the memory's
\* similarity with it is at least MinSimilarity.
C21_StrictTopFirst ==
    response.called =>
        /\ \A m \in DOMAIN Fused :
            (\A i \in DOMAIN Fused \ {m} :
                calculateUnifiedScore(Fused[i]) < calculateUnifiedScore(Fused[m]))
            => TopResultIs(m)
        /\ \A m \in Ids :
            ( /\ Ids = {m}
              /\ world.query \notin world.embedErr
              /\ QuerySimilarity(m) >= config.MinSimilarity )
            => TopResultIs(m)

\* two candidates, the query's most similar memory scores strictly higher
\* than the other one and comes first
C21_Witness ==
    /\ response.called
    /\ Cardinality(DOMAIN Fused) = 2
    /\ \E m \in DOMAIN Fused :
        /\ world.query \notin world.embedErr
        /\ QuerySimilarity(m) >= config.MinSimilarity
        /\ \A i \in DOMAIN Fused \ {m} :
            /\ calculateUnifiedScore(Fused[i]) < calculateUnifiedScore(Fused[m])
            /\ QuerySimilarity(i) < QuerySimilarity(m)
        /\ response.Results[1].ID = m

\* ----------------------------------------------------------------------
\* Properties of the package-level functions
\* ----------------------------------------------------------------------

\* C29: VectorToBytes writes 4 bytes per component, lowest byte first, and
\* BytesToVector gives back the vector it was made from; BytesToVector of a
\* byte slice whose length is no multiple of 4 is nil, not a shorter vector.
C29_RoundTrip ==
    output.called =>
        /\ input.kind = "vector" =>
            /\ Len(output.bytes) = 4 * Len(input.v)
            /\ \A k \in 1..Len(output.bytes) : output.bytes[k] \in 0..255
            /\ \A i \in 1..Len(input.v) : output.bytes[4 * i - 3] = input.v[i] % 256
            /\ output.vector = input.v
        /\ (input.kind = "bytes" /\ Len(input.b) % 4 # 0) => output.vector = <<>>

\* a vector with a negative and a positive component went through both functions
C29_Witness ==
    /\ output.called
    /\ input.kind = "vector"
    /\ Len(input.v) = 2
    /\ input.v[1] < 0
    /\ input.v[2] > 255
    /\ output.vector = input.v

\* the characters the FTS5 query syntax gives a meaning to
Metacharacters == { "\"", "'", "*", "-", "+", "^", ":", "(", ")" }

\* the pieces of a string between the occurrences of " OR "; `piece` is the
\* piece being read
RECURSIVE SplitOr(_, _)
SplitOr(s, piece) ==
    IF s = <<>> THEN << piece >>
    ELSE IF Len(s) >= 4 /\ SubSeq(s, 1, 4) = OrSeparator
         THEN << piece >> \o SplitOr(SubSeq(s, 5, Len(s)), <<>>)
         ELSE SplitOr(Tail(s), Append(piece, Head(s)))

\* C22: every OR-separated token of the output of tokenizeForFTS is longer
\* than one character and holds no whitespace and no FTS metacharacter, and
\* the query "hello-world (test)*" gives "hello OR world OR test".
C22_TokensAreClean ==
    output.called =>
        /\ output.text # <<>> =>
            \A k \in 1..Len(SplitOr(output.text, <<>>)) :
                LET token == SplitOr(output.text, <<>>)[k]
                IN /\ Len(token) > 1
                   /\ \A j \in 1..Len(token) :
                        ~IsSpace(token[j]) /\ token[j] \notin Metacharacters
        /\ input.text = HelloWorld =>
            output.text = << "h", "e", "l", "l", "o" >> \o OrSeparator
                          \o << "w", "o", "r", "l", "d" >> \o OrSeparator
                          \o << "t", "e", "s", "t" >>

\* C23: the strings the vector path embeds always include the original
\* query; without a query client, when its ChatStream call fails or when the
\* stream ends with an error they are the original query alone, and the
\* vector path returns no error.
C23_OriginalAlwaysEmbedded ==
    output.called =>
        /\ \E k \in 1..Len(output.queries) : output.queries[k] = input.query
        /\ input.client \in {"nil", "chatErr", "streamErr"} =>
            /\ output.queries = << input.query >>
            /\ output.err = "nil"

\* the stream delivered a well-formed answer before it ended with an error,
\* and only the original query is embedded
C23_Witness ==
    /\ output.called
    /\ input.client = "streamErr"
    /\ Len(parseTransformResponse(input.reply, input.query)) = 3
    /\ output.queries = << input.query >>

\* ----------------------------------------------------------------------
\* Properties of the FTS strategies
\* ----------------------------------------------------------------------

\* C25: with the strategy summary or keywords, when there is no query client,
\* when its call fails at the creation of the stream or while streaming, or
\* when it yields an empty text, ftsSearch returns what ftsSearchDirect
\* returns for the raw query.
C25_FallsBackToDirect ==
    ( /\ output.called
      /\ config.FTSStrategy \in {"summary", "keywords"}
      /\ \/ world.client \in {"nil", "chatErr", "streamErr"}
         \/ TrimSpace(world.reply) = <<>> )
    => /\ output.results = ftsSearchDirect(world.query).results
       /\ output.err = ftsSearchDirect(world.query).err

\* C26: with the strategy auto, when ftsSearchDirect returns at least
\* max(MemoryTopK / 2, 3) results they are returned unchanged and the query
\* client is not called; otherwise the result is the results of
\* ftsSearchDirect in their order followed by the results of ftsSearchSummary
\* whose id is not among them, in their order, and no id appears twice.
C26_AutoMerge ==
    (output.called /\ config.FTSStrategy = "auto" /\ ftsSearchDirect(world.query).err = "nil")
    => LET direct == ftsSearchDirect(world.query).results
           summary == IF ftsSearchSummary(world.query).err = "nil"
                      THEN ftsSearchSummary(world.query).results ELSE <<>>
           half == config.MemoryTopK \div 2
           R == output.results
       IN /\ output.err = "nil"
          /\ (Len(direct) >= half /\ Len(direct) >= 3) =>
                (R = direct /\ output.chats = 0)
          /\ (Len(direct) < half \/ Len(direct) < 3) =>
                /\ R = direct \o SelectSeq(summary, LAMBDA r : r.ID \notin IdsOf(direct))
                /\ \A j, k \in 1..Len(R) : j # k => R[j].ID # R[k].ID

\* direct found two rows, fewer than the threshold, and the summary search
\* found one of them again and a third row, which was appended
C26_Witness ==
    /\ output.called
    /\ config.FTSStrategy = "auto"
    /\ world.client = "ok"
    /\ Len(ftsSearchDirect(world.query).results) = 2
    /\ Len(ftsSearchSummary(world.query).results) = 2
    /\ ftsSearchSummary(world.query).chats = 1
    /\ Len(output.results) = 3
    /\ output.results[3].ID \notin IdsOf(ftsSearchDirect(world.query).results)

\* ----------------------------------------------------------------------
\* Properties of the store
\* ----------------------------------------------------------------------

\* C27: whatever calls were made, and whether they failed or not, the index
\* of memories_fts holds one entry for each row of the memories table, with
\* the text of the row, and no entry for a rowid that is not in the table.
C27_IndexInStep ==
    /\ DOMAIN ftsIndex = Ids
    /\ \A i \in Ids : ftsIndex[i] = << store[i].text >>

\* a DeleteMemory call removed a row below the newest one, whose embedding
\* had been rewritten, and a row with another text is still there
C27_Witness ==
    /\ output.called
    /\ output.op = "DeleteMemory"
    /\ ~output.dbFailed
    /\ 1 \notin Ids
    /\ \E i \in Ids : store[i].embedding # SavedRow(EmbeddingModel, store[i].text).embedding
    /\ DOMAIN ftsIndex = Ids
    /\ Cardinality(Ids) = 2

\* C28: when a statement of a store call or of a command fails, the caller
\* gets an error that wraps the database error with the context of the
\* operation; when the store fails under the vector search, Retrieve returns
\* an error.
C28_StorageFailuresReturned ==
    /\ (output.called /\ output.dbFailed) =>
            /\ output.err.cause = "db"
            /\ output.err.context \notin {"nil", "none"}
    /\ (response.called /\ world.storeFault /\ ~VectorPathFailed) =>
            response.err # "nil"

\* ----------------------------------------------------------------------
\* Properties of the retry path
\* ----------------------------------------------------------------------

\* the failed job of memory i is on its way to the retry stage or in its
\* backoff: held by the embedder's send, by the writer or by the retry
\* goroutine, with the error of its attempt
HeldFailed(i) ==
    \/ embPc = "send" /\ embJob.item.ID = i /\ embJob.err = lastErr[i]
    \/ wrPc = "sendRetry" /\ wrJob.item.ID = i /\ wrJob.err = lastErr[i]
    \/ rtPc = "backoff" /\ rtJob.item.ID = i /\ rtJob.err = lastErr[i]

\* failed attempts of memory i so far: those it waited out and the current one
FailedAttempts(i) == Len(waited[i]) + (IF lastErr[i] # "nil" THEN 1 ELSE 0)

\* failed attempts of the memories of ids, added up
RECURSIVE SumFailedAttempts(_)
SumFailedAttempts(ids) ==
    IF ids = {} THEN 0
    ELSE LET i == CHOOSE x \in ids : TRUE
         IN FailedAttempts(i) + SumFailedAttempts(ids \ {i})

\* C31: while the call is not cancelled, a job whose Embed call or whose
\* UpdateMemoryEmbedding call failed is held on the way to the retry stage
\* with its error, or was recorded as a failure after its fifth backoff; a
\* job is embedded once more after each backoff it waited out, whatever had
\* failed (a job that went through the writer was embedded once per attempt);
\* and every failure of either kind adds one to the one counter of its job:
\* the jobs' failed attempts add up to the transient failures that happened,
\* and the retry counter is the number of failed attempts waited out.
C31_FailuresRetried ==
    (~parentCancelled /\ mainPc # "idle") =>
        /\ \A i \in LoadedIds :
            /\ lastErr[i] # "nil" =>
                    \/ HeldFailed(i)
                    \/ i \in FailedIds /\ Len(waited[i]) = MaxRetries
            /\ embedCalls[i] \in { Len(waited[i]), Len(waited[i]) + 1 }
            /\ (succeeded[i] > 0 \/ lastErr[i] # "nil") =>
                    embedCalls[i] = Len(waited[i]) + 1
            /\ store[i].text \in poison => FailedAttempts(i) = embedCalls[i]
        /\ SumFailedAttempts({ i \in LoadedIds : store[i].text \notin poison })
               = RetryFaults - faultsLeft
        /\ \A j \in JobsInFlight : j.retryCount = Len(waited[j.item.ID])
        /\ \A k \in 1..Len(jobsCh) :
               embedCalls[jobsCh[k].item.ID] = jobsCh[k].retryCount

\* a job that failed twice, the second time at the write, was received by the
\* embedder again and is about to be embedded a third time; the vector of
\* the failed write is still in it
C31_Witness ==
    /\ ~parentCancelled
    /\ embPc = "embed"
    /\ embJob.retryCount = 2
    /\ embJob.embedding # <<>>
    /\ embedCalls[embJob.item.ID] = 2
    /\ faultsLeft = 0

\* no goroutine of the pipeline was ever started
NoWorkerStarted ==
    /\ embPc = "none" /\ wrPc = "none" /\ rtPc = "none" /\ wtPc = "none"
    /\ embJob = NoJob /\ wrJob = NoJob /\ rtJob = NoJob
    /\ jobsCh = <<>>
    /\ wg = 0

\* C32: on a store with no memories a call whose GetAllMemories succeeds is
\* over in one step and returns nil; no goroutine exists before, during or
\* after it, so that the provider is never called, and the store is as it was.
C32_EmptyStoreNoWork ==
    Ids = {} =>
        /\ mainPc \in {"idle", "returned"}
        /\ NoWorkerStarted
        /\ store = preStore
        /\ embedCalls = <<>>
        /\ failures = <<>>
        /\ (mainPc = "returned" /\ result.kind # "fetchError") =>
                result = [kind |-> "nil", failures |-> <<>>]

\* a call on the empty store returned nil
C32_Witness ==
    /\ Ids = {}
    /\ mainPc = "returned"
    /\ runs = 1
    /\ result.kind = "nil"

\* the columns of a row that UpdateMemoryEmbedding does not set. The text
\* stands for them all: tags, source, confidence and created_at are, like
\* the text, columns the statement does not name
KeptColumns(row) == [text |-> row.text]

\* C33: at every point of a call and after it, whatever it returns, the
\* table has the rows it had when the call started, under the same ids, and
\* each row differs from what it was at most in embedding, model_id, dim and
\* provider; the full-text index is as it was.
C33_OnlyEmbeddingFields ==
    /\ DOMAIN store = DOMAIN preStore
    /\ \A i \in Ids : KeptColumns(store[i]) = KeptColumns(preStore[i])
    /\ ftsIndex = IndexOf(preStore)

\* a cancelled call returned after it had rewritten one row and not another
C33_Witness ==
    /\ Returned
    /\ result.kind = "cancelled"
    /\ \E i, j \in Ids :
        /\ store[i].embedding # preStore[i].embedding
        /\ store[i].modelID = model.ModelID
        /\ store[j] = preStore[j]

\* ----------------------------------------------------------------------
\* Properties of the jobs of a run
\* ----------------------------------------------------------------------

\* number of jobs of memory i in flight: in the jobs queue, or held by the
\* embedder, the writer or the retry goroutine (its backoff included)
InFlight(i) ==
    Cardinality({ k \in 1..Len(jobsCh) : jobsCh[k].item.ID = i })
    + (IF embJob.item.ID = i THEN 1 ELSE 0)
    + (IF wrJob.item.ID = i THEN 1 ELSE 0)
    + (IF rtJob.item.ID = i THEN 1 ELSE 0)

\* number of times the job of memory i was marked done (wg.Done)
MarkedDone(i) == succeeded[i] + Mentions(failures, i)

RECURSIVE SumMarkedDone(_)
SumMarkedDone(ids) ==
    IF ids = {} THEN 0
    ELSE LET i == CHOOSE x \in ids : TRUE
         IN MarkedDone(i) + SumMarkedDone(ids \ {i})

\* C34: at every point of a run over N loaded memories, cancelled or not,
\* each memory has at most one job, in flight or marked done, never both and
\* never two; the jobs queue holds at most N jobs, the main goroutine and
\* the retry goroutine find room in it whenever they are about to send, and
\* at most N jobs are marked done (the WaitGroup counter is N minus the jobs
\* marked done and never negative).
C34_OneJobPerMemory ==
    /\ \A i \in Ids : InFlight(i) + MarkedDone(i) <= 1
    /\ Len(jobsCh) <= total
    /\ mainPc = "load" => Len(jobsCh) < total
    /\ rtPc = "resubmit" => Len(jobsCh) < total
    /\ SumMarkedDone(Ids) <= total
    /\ mainPc \in {"load", "spawn", "wait", "returned"} =>
            wg = total - SumMarkedDone(Ids)

\* the retry goroutine is about to put a job back into the jobs queue while
\* the other job of the run is in it
C34_Witness ==
    /\ total = 2
    /\ rtPc = "resubmit"
    /\ Len(jobsCh) = 1
    /\ jobsCh[1].item.ID # rtJob.item.ID
    /\ ~CtxDone

\* ----------------------------------------------------------------------
\* Properties of the search over vectors of several lengths
\* ----------------------------------------------------------------------

\* the normalized embedding of the query of the call
QueryVector == NormalizeVector(EmbedVector(EmbeddingModel, world.query))

\* the stored vector of memory i has another length than the query's
OtherLength(i) == Len(BytesToVector(store[i].embedding)) # Len(QueryVector)

\* C35: a SearchMemories call over a table with vectors of another length
\* than the query's returns without error; such a memory has similarity 0:
\* with a positive minSimilarity it is never among the results, and where it
\* is among them (minSimilarity <= 0) its Similarity is 0 and it is ranked as
\* a 0, after every result of a positive similarity. The memories of the
\* query's length are scored by their dot product as always.
C35_OtherLengthIsZero ==
    found.called =>
        /\ SearchMemoriesErr = "nil"
        /\ \A k \in 1..Len(found.results) :
            LET r == found.results[k]
            IN IF OtherLength(r.ID)
               THEN /\ r.Similarity = 0
                    /\ config.MinSimilarity <= 0
                    /\ \A j \in 1..Len(found.results) :
                           found.results[j].Similarity > 0 => j < k
               ELSE r.Similarity = DotSum(QueryVector, BytesToVector(store[r.ID].embedding))
        /\ \A i \in Ids :
            (OtherLength(i) /\ i \notin IdsOf(found.results)) =>
                \/ config.MinSimilarity > 0
                \/ /\ Len(found.results) = config.MemoryTopK
                   /\ \A k \in 1..Len(found.results) : found.results[k].Similarity >= 0

\* a search with the default threshold returned the memory of the query's
\* length and left out the memory of the same text and direction whose
\* vector has another length
C35_Witness ==
    /\ found.called
    /\ config.MinSimilarity > 0
    /\ \E i, j \in Ids :
        /\ OtherLength(i)
        /\ ~OtherLength(j)
        /\ store[i].text = store[j].text
        /\ store[i].text = world.query
        /\ IdsOf(found.results) = {j}

\* ----------------------------------------------------------------------
\* Properties of the settings screen
\* ----------------------------------------------------------------------

\* no command runs and no message is on its way to Update
Settled == settings.cmds = {} /\ settings.msgs = {}

\* the configured embedding model changes only when a ReindexResultMsg
\* without error reaches Update, and then to the pending model
ConfiguredOnSuccessOnly ==
    [][settings'.m.EmbeddingModel # settings.m.EmbeddingModel =>
          /\ \E msg \in settings.msgs \ settings'.msgs :
                msg.kind = "ReindexResultMsg" /\ msg.err = "nil"
          /\ settings'.m.EmbeddingModel = settings.m.PendingModel]_vars

\* the saved embedding model changes only to the configured one
SavedIsConfigured ==
    [][settings'.file.EmbeddingModel # settings.file.EmbeddingModel =>
          settings'.file.EmbeddingModel = settings.m.EmbeddingModel]_vars

\* once the program is settled after a confirmed reindex that succeeded (and
\* the configuration file could be written), the saved configuration names
\* the model of the stored memories
SavedModelIsStoredModel ==
    (Settled /\ settings.reindexed # NoModel /\ ~settings.saveFailed) =>
        /\ settings.file.EmbeddingModel = settings.reindexed
        /\ \A i \in Ids :
            /\ store[i].modelID = settings.file.EmbeddingModel.ModelID
            /\ store[i].provider = settings.file.EmbeddingModel.Provider

HoldsOriginal(id) == id \in DOMAIN store' /\ store'[id] = store[id]

\* the table after the edit holds, at rowid new, the replacement the edit
\* of memory id saves for this text (a row that was not there, or the row
\* that took the rowid of the deleted one)
IsReplacement(id, text, new) ==
    /\ new \in DOMAIN store'
    /\ new \notin DOMAIN store \ {id}
    /\ store'[new] = SavedRow(EmbeddingModel, text)

\* the edit of memory id left the original or its replacement; when it
\* reports success, the replacement has taken the place of the original and
\* every other memory is as it was
EditKeeps(id, text) ==
    /\ HoldsOriginal(id) \/ \E new \in DOMAIN store' : IsReplacement(id, text, new)
    /\ output'.err = Nil =>
            \E new \in DOMAIN store' :
                /\ IsReplacement(id, text, new)
                /\ DOMAIN store' = (DOMAIN store \ {id}) \cup {new}
                /\ \A i \in DOMAIN store \ {id} : store'[i] = store[i]

\* C37: an edit never loses the memory: when updateMemory has finished, with
\* success or with an error, the store holds the original memory or its
\* edited replacement, and on success it holds the replacement once and the
\* original no longer.
C37_EditKeepsMemory ==
    [][\A id \in 1..MaxRowid, text \in 1..QueryTexts, reaches \in EditReturns,
          deleteFails \in BOOLEAN, saveFails \in BOOLEAN :
            updateMemoryOf(id, text, reaches, deleteFails, saveFails) => EditKeeps(id, text)]_vars

\* ----------------------------------------------------------------------
\* Properties of the scoring rule
\* ----------------------------------------------------------------------

\* C38: for every similarity in [0, 1] and every FTS rank, the score of the
\* entry with Source both is at least its score with Source vector (the
\* VectorScore) and at least its score with Source fts.
C38_BothNeverLower ==
    output.called => /\ output.both >= output.vector
                     /\ output.both >= output.fts

\* the smaller of two scores
Lower(a, b) == IF a < b THEN a ELSE b

\* C38, amended: the score with Source both is at least the lower of the
\* scores with Source vector and with Source fts; it is at least the score
\* with Source vector exactly when 12 * fts >= 7 * vector, and at least the
\* score with Source fts exactly when 18 * vector >= 13 * fts.
C38_BothAboveLower ==
    output.called =>
        /\ output.both >= Lower(output.vector, output.fts)
        /\ output.both >= output.vector <=> 12 * output.fts >= 7 * output.vector
        /\ output.both >= output.fts <=> 18 * output.vector >= 13 * output.fts

\* similarity 1.0 and rank -20.0: the boosted blend 0.72 is below the
\* VectorScore 1.0
C38_Witness ==
    /\ output.called
    /\ input.VectorScore = One
    /\ input.FTSRank = 0 - 20 * One
    /\ output.vector = One
    /\ output.fts = 0
    /\ output.both = 72 * Unit

====
